---------------------------- MODULE Spec2Model ----------------------------
(***************************************************************************)
(* PriceTrek: the tracking pipeline (Tracker.TrackItem / TrackAll, driven  *)
(* by CLI.trackOnce and CLI.trackLoop), the sample store (sqliteStorage),  *)
(* the rule evaluator (Tracker.CheckAlerts / checkItemAlerts) and the      *)
(* notification fan-out (NotificationManager).                             *)
(*                                                                         *)
(* Specifications:                                                         *)
(*   Spec        tracking runs and alert evaluations, each as one step     *)
(*   SpecNotify  NotificationManager.New and Send                          *)
(*   SpecStore   the calls of the storage interface, one at a time         *)
(*   SpecRace    one evaluation, query by query, beside a process that     *)
(*               tracks the same item                                      *)
(*   SpecLoop    CLI.trackLoop: ticker, tracking runs, cancellation        *)
(*   SpecFetch   tracking through the resilience layer: cache and clock     *)
(*   SpecRetry   tracking through the resilience layer: the retried tries   *)
(*   SpecBackoff the delays slept between the tries of one fetch            *)
(*   SpecWatch   `pricetrek add` beside `pricetrek track --once`            *)
(*   SpecCsv     ExportItems followed by ImportItems                        *)
(*                                                                         *)
(* Go values are represented as follows.                                   *)
(*   - a pointer that may be nil (to a float64, PriceSample, Item) is a set*)
(*     with no element (nil) or one element (the value pointed to);        *)
(*   - an error is a string, "nil" for no error;                           *)
(*   - a float64 price or threshold is an integer (whole currency units);  *)
(*     the one float division of the program is modelled by Float values   *)
(*     (finite ratio, +Inf, -Inf, NaN) as IEEE-754 defines it. On the      *)
(*     values used below the float64 comparison gives the same answer as   *)
(*     the exact one;                                                      *)
(*   - a map[string]interface{} is [nil, kv]: the nil map, or the set of   *)
(*     its key/value pairs; a value is [type, val]: its dynamic Go type    *)
(*     (bool, int, float64) and its value (a bool as 0 or 1).              *)
(***************************************************************************)
EXTENDS Integers, Sequences, FiniteSets, TLC

VARIABLES
    cfgItems,      \* config.Config.Items, as loaded from pricetrek.yaml
    rulesDrop,     \* config.Config.Rules.PercentDrop (the global default)
    dbItems,       \* the rows of the items table
    prices,        \* the rows of the prices table, in insertion order
    op,            \* the last operation that ran
    ret,           \* the error it returned ("nil" for none)
    tracked,       \* its TrackItem calls, in order: what the provider and the store answered
    evaluated,     \* its checkItemAlerts calls, in order, with the error each returned
    alerts,        \* the alert conditions it found true (its "Target price reached" / "Price drop alert" log lines)
    handed,        \* the messages it handed to NotificationManager.Send
    lastCall,      \* the last call of the storage interface: its arguments and what it returned
    enabled,       \* config.Config.Notifications: the Enabled flag of each channel
    notifiers,     \* NotificationManager.notifiers
    attempts,      \* the notifier.Send calls of the last NotificationManager.Send, in order
    evalPc,        \* where the evaluation in progress stands: idle, latest (first query done), done
    evalLatest,    \* what its GetLatestPrice returned
    compared,      \* the samples it took as current and as previous, once it compared two
    loopPc,        \* where trackLoop stands: select, run (inside trackOnce), returned
    ctxDone,       \* whether trackLoop's context is cancelled
    tickPending,   \* how many ticks wait in ticker.C
    running,       \* how many trackOnce calls of trackLoop are in progress
    elapsed,       \* how many times the ticker has fired since the last run started
    loopItemID,    \* the --id trackLoop was started with ("" for all items)
    loopLog,       \* the tracking runs trackLoop has made so far, in order
    yamlAttempts,  \* defaults.retry.attempts in pricetrek.yaml (0 when it is not set)
    retryAttempts, \* config.Config.Defaults.Retry.Attempts, as config.Load leaves it
    cacheTTL,      \* config.Config.Defaults.CacheTTL, as config.Load leaves it (minutes)
    fetchCache,    \* the response cache: the entry of each request fingerprint, if any
    fetchClock,    \* the time (minutes)
    lastFetch,     \* the last provider.Fetch call: what it met, did and returned
    baseDelay,     \* config.Config.Defaults.Retry.BaseDelay, as config.Load leaves it (ms)
    maxDelay,      \* config.Config.Defaults.Retry.MaxDelay, as config.Load leaves it (ms)
    tryNo,         \* the try of the fetch in progress that comes next (1: the first)
    jitter,        \* the jitter drawn for the delay before that try, once it is drawn
    delayParts,    \* the exponential part of the delay before that try, and of the one before
    unixTime,      \* time.Now().Unix(): the second the clock shows
    added,         \* how many `pricetrek add` commands have succeeded
    csvPc,         \* where the export and import of the watchlist stand: start, exported, imported
    csvItems,      \* the items ExportItems is called with
    csvFile,       \* the text of the CSV file, character by character
    csvImported,   \* the items ImportItems returned
    csvErr,        \* the error ImportItems returned
    lastAdd        \* the last `pricetrek add`: the id it generated, its error, whether the id was stored before

pipeVars == <<cfgItems, rulesDrop, dbItems, prices, op, ret, tracked, evaluated, alerts, handed>>
notifyVars == <<enabled, notifiers, attempts>>
raceVars == <<evalPc, evalLatest, compared>>
loopVars == <<loopPc, ctxDone, tickPending, running, elapsed, loopItemID, loopLog>>
fetchVars == <<yamlAttempts, retryAttempts, cacheTTL, fetchCache, fetchClock, lastFetch>>
\* the variables of the specifications of the resilience layer and the watchlist
backoffVars == <<baseDelay, maxDelay, tryNo, jitter, delayParts>>
watchVars == <<unixTime, added, lastAdd>>
csvVars == <<csvPc, csvItems, csvFile, csvImported, csvErr>>
sideVars == <<fetchVars, backoffVars, watchVars, csvVars>>

vars == <<pipeVars, lastCall, notifyVars, raceVars, loopVars, sideVars>>

---------------------------------------------------------------------------
(* Bounds of the model *)

\* a tracking run starts only while fewer samples than this have been written
\* (the time of the next write, counted in writes, is at most this)
MaxRows == 3
\* the longest item list a configuration of the tracking scenario holds
MaxItems == 2
\* a direct SavePrice call is made only while the time of the write is at most this
MaxStoreRows == 2
\* a fetch through the resilience layer is made only while the time of the
\* write that follows it is at most this
MaxFetchRows == 2
\* the clock of the resilience layer is advanced only while it shows at most this
MaxClock == 3
\* the retry delays are followed up to the delay before this try
MaxTry == 5
\* `pricetrek add` is run only while fewer adds than this have succeeded
MaxAdds == 2
\* the clock of the watchlist commands ticks only while it shows less than this
MaxUnix == 2
\* trackLoop starts a tracking run only while it has made fewer runs than this
MaxRuns == 3
\* the ticker is followed for this many ticks after the start of a run (and
\* of the loop)
MaxTicks == 2

---------------------------------------------------------------------------
(* Values *)

Nil == {}
Ptr(x) == {x}
Deref(p) == CHOOSE x \in p : TRUE

NoError == "nil"

Prices == {-1, 0, 91, 93, 100}

\* the values a metadata map holds, each with its dynamic type
GoBool(b) == [type |-> "bool", val |-> IF b THEN 1 ELSE 0]
GoInt(n) == [type |-> "int", val |-> n]
GoFloat64(n) == [type |-> "float64", val |-> n]

NilMeta == [nil |-> TRUE, kv |-> {}]
EmptyMeta == [nil |-> FALSE, kv |-> {}]
StockMeta(b) == [nil |-> FALSE, kv |-> {<<"in_stock", GoBool(b)>>}]

Min(a, b) == IF a <= b THEN a ELSE b


---------------------------------------------------------------------------
(* internal/config: ItemConfig.  Only the fields the tracker, the store and *)
(* the evaluator read are kept: ID, Provider, URL, Currency, TargetPrice,  *)
(* PercentDrop.                                                            *)

ItemConfig(id, provider, url, currency, target, drop) ==
    [ID |-> id, Provider |-> provider, URL |-> url, Currency |-> currency,
     TargetPrice |-> target, PercentDrop |-> drop]

\* config.Load: a percent_drop of 0 (or none) in the rules section becomes 8.0
DefaultPercentDrop == 8

LoadRulesPercentDrop(configured) ==
    IF configured = 0 THEN DefaultPercentDrop ELSE configured

\* config.Load: retry attempts of 0 (or none) in the defaults section become 3
DefaultAttempts == 3

\* config.Load as it would be if it set the retry attempts whatever the file says
LoadRetryAttemptsFixed(configured) == DefaultAttempts

LoadRetryAttempts(configured) ==
    IF configured = 0 THEN DefaultAttempts ELSE configured

\* config.Load: a base delay of 0 (or none) becomes 800 ms, a maximal delay of
\* 0 (or none) 7 s
DefaultBaseDelay == 800
DefaultMaxDelay == 7000

LoadBaseDelay(configured) ==
    IF configured = 0 THEN DefaultBaseDelay ELSE configured

LoadMaxDelay(configured) ==
    IF configured = 0 THEN DefaultMaxDelay ELSE configured

\* config.Load: a cache TTL of 0 (or none) becomes 30 minutes
DefaultCacheTTL == 30

LoadCacheTTL(configured) ==
    IF configured = 0 THEN DefaultCacheTTL ELSE configured

---------------------------------------------------------------------------
(* internal/providers (not part of the sources at hand): GetProvider and   *)
(* Provider.Fetch, as the README and their callers describe them.  What a  *)
(* listing answers is the environment's choice.                            *)

ZeroSample == [Price |-> 0, Currency |-> "", Meta |-> NilMeta]

\* what each listing of the modelled world can answer when it answers
Listing(url) ==
    CASE url = "shop/volatile" ->
            {[Price |-> p, Currency |-> "USD", Meta |-> NilMeta] : p \in Prices}
            \cup {[Price |-> 91, Currency |-> "EUR", Meta |-> NilMeta],
                  [Price |-> 100, Currency |-> "USD", Meta |-> StockMeta(FALSE)],
                  [Price |-> 91, Currency |-> "USD", Meta |-> StockMeta(TRUE)]}
      [] url = "shop/steady" ->
            {[Price |-> 100, Currency |-> "USD", Meta |-> NilMeta]}
      [] url = "shop/sale" ->
            {[Price |-> p, Currency |-> "USD", Meta |-> NilMeta] : p \in {100, 91, 80}}
      [] OTHER -> {}

\* providers.GetProvider(name, defaults): the error it returns
GetProvider(name) ==
    IF name \in {"generic", "exec"} THEN NoError ELSE "unknown provider"

\* provider.Fetch(ctx, item): every (sample, err) it can return
Fetch(item) ==
    {[err |-> "fetch failed", sample |-> ZeroSample]}
    \cup {[err |-> NoError, sample |-> s] : s \in Listing(item.URL)}

---------------------------------------------------------------------------
(* The resilience layer around every fetch (internal/providers, not part of *)
(* the sources at hand), as the specification of the core describes it:    *)
(* cache-first lookup, retries of retryable failures, cache write on       *)
(* success.  The raw content of a response is represented by the sample     *)
(* that is extracted from it.                                              *)

\* the request fingerprint of an item: provider kind and URL
Fingerprint(item) == <<item.Provider, item.URL>>

\* what one try of the provider can end in
RetryableFailures == {"timeout", "non-2xx"}
TryOutcomes == {"ok", "extraction"} \cup RetryableFailures

\* a cache entry is live until its TTL has elapsed
Live(entry, now) ==
    /\ entry # Nil
    /\ now < Deref(entry).fetchedAt + Deref(entry).ttl

\* the error of a try that is not retried
PermanentError(outcome) == "PermanentExtraction"

\* the retry policy from try n on: up to `limit` tries; outcomes[n] is what try n
\* ends in
RECURSIVE Retry(_, _, _)
Retry(limit, outcomes, n) ==
    LET causes == SubSeq(outcomes, 1, n)
    IN  IF outcomes[n] = "ok"
        THEN [tries |-> n, causes |-> causes, err |-> NoError, lastCause |-> ""]
        ELSE IF outcomes[n] \notin RetryableFailures
        THEN [tries |-> n, causes |-> causes, err |-> PermanentError(outcomes[n]),
              lastCause |-> outcomes[n]]
        ELSE IF n >= limit
        THEN [tries |-> n, causes |-> causes, err |-> "Exhausted", lastCause |-> outcomes[n]]
        ELSE Retry(limit, outcomes, n + 1)

RECURSIVE Pow2(_)
Pow2(k) == IF k = 0 THEN 1 ELSE 2 * Pow2(k - 1)

\* the exponential part as it would be without the clamp
ExponentialPartUnclamped(n, base, max) == base * Pow2(n - 2)

\* the exponential part of the delay before try n (n >= 2)
ExponentialPart(n, base, max) == Min(max, base * Pow2(n - 2))

\* uniformRandom(0, baseDelay): every value it can draw
Jitters(base) == 0..base

\* the delay before try n (n >= 2), with the jitter drawn for it
Backoff(n, base, max, drawn) == ExponentialPart(n, base, max) + drawn

\* the wrapped fetch as it would be if it never looked an entry up
ResilientFetchNoLookup(cache, now, ttl, limit, item, force, outcomes, raw) ==
    LET fp == Fingerprint(item)
        r == Retry(limit, outcomes, 1)
    IN  IF r.err = NoError
        THEN [err |-> NoError, cause |-> "", sample |-> raw, tries |-> r.tries,
              causes |-> r.causes,
              cache |-> [cache EXCEPT ![fp] = Ptr([raw |-> raw, fetchedAt |-> now, ttl |-> ttl])]]
        ELSE [err |-> r.err, cause |-> r.lastCause, sample |-> ZeroSample,
              tries |-> r.tries, causes |-> r.causes, cache |-> cache]

\* the wrapped fetch of one item: (sample, err), the tries of the provider it
\* made and the cache it leaves.  force: the caller asked for a forced refresh;
\* outcomes: what each try ends in; raw: what the listing answers to a try that
\* succeeds
ResilientFetch(cache, now, ttl, limit, item, force, outcomes, raw) ==
    LET fp == Fingerprint(item)
        entry == cache[fp]
    IN  IF Live(entry, now) /\ ~force
        THEN [err |-> NoError, cause |-> "", sample |-> Deref(entry).raw, tries |-> 0,
              causes |-> <<>>, cache |-> cache]
        ELSE LET r == Retry(limit, outcomes, 1)
             IN  IF r.err = NoError
                 THEN [err |-> NoError, cause |-> "", sample |-> raw, tries |-> r.tries,
                       causes |-> r.causes,
                       cache |-> [cache EXCEPT ![fp] =
                                     Ptr([raw |-> raw, fetchedAt |-> now, ttl |-> ttl])]]
                 ELSE [err |-> r.err, cause |-> r.lastCause, sample |-> ZeroSample,
                       tries |-> r.tries, causes |-> r.causes, cache |-> cache]

---------------------------------------------------------------------------
(* internal/storage: the prices table *)

\* encoding/json on one value of the map: a bool is written as true or
\* false, an int and a float64 alike as a JSON number
MarshalValue(v) ==
    IF v.type = "bool" THEN [json |-> "bool", val |-> v.val]
                       ELSE [json |-> "number", val |-> v.val]

\* encoding/json into an interface{}: true or false becomes a bool, every
\* JSON number a float64
UnmarshalValue(j) ==
    IF j.json = "bool" THEN [type |-> "bool", val |-> j.val]
                       ELSE [type |-> "float64", val |-> j.val]

\* json.Marshal of the meta map; a nil map is stored as the empty string
MarshalMeta(meta) ==
    IF meta.nil THEN [empty |-> TRUE, obj |-> {}]
                ELSE [empty |-> FALSE,
                      obj |-> {<<p[1], MarshalValue(p[2])>> : p \in meta.kv}]

\* json.Unmarshal of the meta column; the empty string leaves the map nil
UnmarshalMeta(metaJSON) ==
    IF metaJSON.empty THEN NilMeta
                      ELSE [nil |-> FALSE,
                            kv |-> {<<p[1], UnmarshalValue(p[2])>> : p \in metaJSON.obj}]

\* time.Now() of an insert: later than the ts of every row written before
Now(table) ==
    IF table = <<>> THEN 1
    ELSE 1 + (CHOOSE t \in {table[i].ts : i \in 1..Len(table)} :
                 \A i \in 1..Len(table) : table[i].ts <= t)

\* SavePrice as it would be if it never filled metaJSON
SavePriceDropsMeta(table, itemID, price, currency, meta, dbFault) ==
    IF dbFault
    THEN [err |-> "failed to save price", prices |-> table]
    ELSE [err |-> NoError,
          prices |-> Append(table,
                        [item_id |-> itemID, ts |-> Now(table), price |-> price,
                         currency |-> currency, meta |-> MarshalMeta(NilMeta)])]

\* sqliteStorage.SavePrice; dbFault: the INSERT fails
SavePrice(table, itemID, price, currency, meta, dbFault) ==
    IF dbFault
    THEN [err |-> "failed to save price", prices |-> table]
    ELSE [err |-> NoError,
          prices |-> Append(table,
                        [item_id |-> itemID, ts |-> Now(table), price |-> price,
                         currency |-> currency, meta |-> MarshalMeta(meta)])]

\* rows.Scan into a PriceSample
ScanSample(row) ==
    [ItemID |-> row.item_id, Time |-> row.ts, Price |-> row.price,
     Currency |-> row.currency, Meta |-> UnmarshalMeta(row.meta)]

\* WHERE item_id = ? ORDER BY ts DESC: the rows of the item, newest first
RECURSIVE OrderByTsDesc(_)
OrderByTsDesc(rows) ==
    IF rows = {} THEN <<>>
    ELSE LET newest == CHOOSE r \in rows : \A q \in rows : q.ts <= r.ts
         IN  <<newest>> \o OrderByTsDesc(rows \ {newest})

\* GetPrices as it would be with ORDER BY ts ASC
GetPricesOldestFirst(table, itemID, limit) ==
    LET rows == {table[i] : i \in {j \in 1..Len(table) : table[j].item_id = itemID}}
        sorted == OrderByTsDesc(rows)
        n == IF limit < 0 THEN Len(sorted) ELSE Min(limit, Len(sorted))
    IN  [i \in 1..n |-> ScanSample(sorted[Len(sorted) + 1 - i])]

\* sqliteStorage.GetPrices(itemID, limit), when the query succeeds.  SQLite
\* reads a negative LIMIT as no limit.
GetPrices(table, itemID, limit) ==
    LET rows == {table[i] : i \in {j \in 1..Len(table) : table[j].item_id = itemID}}
        sorted == OrderByTsDesc(rows)
        n == IF limit < 0 THEN Len(sorted) ELSE Min(limit, Len(sorted))
    IN  [i \in 1..n |-> ScanSample(sorted[i])]

\* sqliteStorage.GetLatestPrice(itemID), when the query succeeds: nil for no row
GetLatestPrice(table, itemID) ==
    LET rows == {table[i] : i \in {j \in 1..Len(table) : table[j].item_id = itemID}}
    IN  IF rows = {} THEN Nil
        ELSE Ptr(ScanSample(CHOOSE r \in rows : \A q \in rows : q.ts <= r.ts))

\* sqliteStorage.SaveItem(item): INSERT OR REPLACE on the primary key id;
\* dbFault: the statement fails
SaveItem(items, item, dbFault) ==
    IF dbFault
    THEN [err |-> "failed to save item", items |-> items]
    ELSE [err |-> NoError,
          items |-> {it \in items : it.ID # item.ID} \cup {item}]

\* DeleteItem as it would be with `DELETE FROM prices` and no WHERE clause
DeleteItemAllPrices(items, table, itemID, fault) ==
    IF fault = "items"
    THEN [err |-> "failed to delete item", items |-> items, prices |-> table]
    ELSE LET kept == {it \in items : it.ID # itemID}
         IN  IF fault = "prices"
             THEN [err |-> "failed to delete prices", items |-> kept, prices |-> table]
             ELSE [err |-> NoError, items |-> kept, prices |-> <<>>]

\* sqliteStorage.DeleteItem(itemID): two DELETE statements, one after the
\* other; fault: the statement that fails, if any
DeleteItem(items, table, itemID, fault) ==
    IF fault = "items"
    THEN [err |-> "failed to delete item", items |-> items, prices |-> table]
    ELSE LET kept == {it \in items : it.ID # itemID}
         IN  IF fault = "prices"
             THEN [err |-> "failed to delete prices", items |-> kept, prices |-> table]
             ELSE [err |-> NoError, items |-> kept,
                   prices |-> SelectSeq(table, LAMBDA r : r.item_id # itemID)]

\* sqliteStorage.GetItem(itemID): nil for no row
GetItem(items, itemID) ==
    IF \E it \in items : it.ID = itemID
    THEN Ptr(CHOOSE it \in items : it.ID = itemID)
    ELSE Nil

---------------------------------------------------------------------------
(* float64 arithmetic of checkItemAlerts *)

\* a / b in float64, for integers a and b
FloatDiv(a, b) ==
    IF b = 0
    THEN IF a > 0 THEN [k |-> "+Inf", n |-> 0, d |-> 1]
         ELSE IF a < 0 THEN [k |-> "-Inf", n |-> 0, d |-> 1]
         ELSE [k |-> "NaN", n |-> 0, d |-> 1]
    ELSE IF b > 0 THEN [k |-> "fin", n |-> a, d |-> b]
         ELSE [k |-> "fin", n |-> 0 - a, d |-> 0 - b]

\* x * c in float64, for an integer c > 0
FloatMul(x, c) == [x EXCEPT !.n = @ * c]

\* x >= t in float64, for an integer t: false for NaN
FloatGe(x, t) ==
    CASE x.k = "fin" -> x.n >= t * x.d
      [] x.k = "+Inf" -> TRUE
      [] OTHER -> FALSE

---------------------------------------------------------------------------
(* internal/tracker *)

\* what the outside answered to one TrackItem call: the fetch and the INSERT
\* (the INSERT is only reached, and so only answers, after a fetch that succeeded)
TrackInputs(item) ==
    {in \in [fetch : Fetch(item), dbFault : BOOLEAN] :
        in.dbFault => in.fetch.err = NoError /\ GetProvider(item.Provider) = NoError}

\* TrackItem as it would be without the `return` after a fetch that failed:
\* the zero sample is saved
TrackItemSavesAfterFailedFetch(table, item, in) ==
    LET call == [item |-> item.ID, fetched |-> FALSE, saved |-> FALSE,
                 sample |-> ZeroSample, err |-> NoError]
    IN  IF GetProvider(item.Provider) # NoError
        THEN [err |-> "failed to get provider", prices |-> table,
              call |-> [call EXCEPT !.err = "failed to get provider"]]
        ELSE LET sample == in.fetch.sample
                 save == SavePrice(table, item.ID, sample.Price, sample.Currency,
                                   sample.Meta, in.dbFault)
             IN  IF in.fetch.err # NoError
                 THEN [err |-> "failed to fetch price", prices |-> save.prices,
                       call |-> [call EXCEPT !.err = "failed to fetch price"]]
                 ELSE IF save.err # NoError
                 THEN [err |-> "failed to save price", prices |-> table,
                       call |-> [call EXCEPT !.fetched = TRUE,
                                             !.err = "failed to save price"]]
                 ELSE [err |-> NoError, prices |-> save.prices,
                       call |-> [call EXCEPT !.fetched = TRUE, !.saved = TRUE,
                                             !.sample = sample]]

\* Tracker.TrackItem(ctx, item); call: what this call met and returned
TrackItem(table, item, in) ==
    LET call == [item |-> item.ID, fetched |-> FALSE, saved |-> FALSE,
                 sample |-> ZeroSample, err |-> NoError]
    IN  IF GetProvider(item.Provider) # NoError
        THEN [err |-> "failed to get provider", prices |-> table,
              call |-> [call EXCEPT !.err = "failed to get provider"]]
        ELSE IF in.fetch.err # NoError
        THEN [err |-> "failed to fetch price", prices |-> table,
              call |-> [call EXCEPT !.err = "failed to fetch price"]]
        ELSE LET sample == in.fetch.sample
                 save == SavePrice(table, item.ID, sample.Price, sample.Currency,
                                   sample.Meta, in.dbFault)
             IN  IF save.err # NoError
                 THEN [err |-> "failed to save price", prices |-> table,
                       call |-> [call EXCEPT !.fetched = TRUE,
                                             !.err = "failed to save price"]]
                 ELSE [err |-> NoError, prices |-> save.prices,
                       call |-> [call EXCEPT !.fetched = TRUE, !.saved = TRUE,
                                             !.sample = sample]]

\* TrackAll as it would be with `return err` where the loop has `continue`
RECURSIVE TrackAllReturnLoop(_, _, _, _, _)
TrackAllReturnLoop(table, items, ins, i, calls) ==
    IF i > Len(items)
    THEN [err |-> NoError, prices |-> table, calls |-> calls]
    ELSE LET r == TrackItem(table, items[i], ins[i])
         IN  IF r.err # NoError
             THEN [err |-> r.err, prices |-> r.prices, calls |-> Append(calls, r.call)]
             ELSE TrackAllReturnLoop(r.prices, items, ins, i + 1, Append(calls, r.call))

TrackAllReturnsOnFailure(table, items, ins) ==
    TrackAllReturnLoop(table, items, ins, 1, <<>>)

\* the loop of Tracker.TrackAll from item i on: a failed item is logged and skipped
RECURSIVE TrackAllLoop(_, _, _, _, _)
TrackAllLoop(table, items, ins, i, calls) ==
    IF i > Len(items)
    THEN [err |-> NoError, prices |-> table, calls |-> calls]
    ELSE LET r == TrackItem(table, items[i], ins[i])
         IN  TrackAllLoop(r.prices, items, ins, i + 1, Append(calls, r.call))

\* Tracker.TrackAll(ctx)
TrackAll(table, items, ins) == TrackAllLoop(table, items, ins, 1, <<>>)

\* checkItemAlerts: the target check, `item.TargetPrice != nil && latest.Price <= *item.TargetPrice`
TargetReached(item, latest) ==
    item.TargetPrice # Nil /\ latest.Price <= Deref(item.TargetPrice)

\* checkItemAlerts: the threshold, the item's own or else the rules' default
EffectivePercentDrop(item, rules) ==
    IF item.PercentDrop = Nil THEN rules ELSE Deref(item.PercentDrop)

\* the previous price as it would be read with index 0 where the code has index 1
PreviousPriceIsLatest(history) == history[1].Price

\* checkItemAlerts: `previousPrice := prices[1].Price` (Go indexes from 0)
PreviousPrice(history) == history[2].Price

\* checkItemAlerts: `((previousPrice - latest.Price) / previousPrice) * 100`
DropPercent(previousPrice, latestPrice) ==
    FloatMul(FloatDiv(previousPrice - latestPrice, previousPrice), 100)

\* the two checks as they would be with `else if` between them: the
\* percent-drop check runs only when the target check found nothing
EvaluateAlertsExclusive(item, rules, latest, history, readFault) ==
    LET quiet == [err |-> NoError, alerts |-> {}, handed |-> <<>>]
    IN  IF readFault = "latest"
        THEN [quiet EXCEPT !.err = "failed to get latest price"]
        ELSE IF latest = Nil THEN quiet
        ELSE IF readFault = "history"
        THEN [quiet EXCEPT !.err = "failed to get price history"]
        ELSE IF Len(history) < 2 THEN quiet
        ELSE LET cur == Deref(latest)
                 percentDrop == EffectivePercentDrop(item, rules)
                 previousPrice == PreviousPrice(history)
                 dropPercent == DropPercent(previousPrice, cur.Price)
             IN  IF TargetReached(item, cur)
                 THEN [quiet EXCEPT !.alerts =
                          {[item |-> item.ID, kind |-> "target_reached",
                            current |-> cur.Price,
                            target |-> Deref(item.TargetPrice)]}]
                 ELSE IF percentDrop > 0 /\ FloatGe(dropPercent, percentDrop)
                 THEN [quiet EXCEPT !.alerts =
                          {[item |-> item.ID, kind |-> "percent_drop",
                            current |-> cur.Price, previous |-> previousPrice,
                            drop_percent |-> dropPercent]}]
                 ELSE quiet

\* Tracker.checkItemAlerts(ctx, item) from what its two queries returned:
\* latest from GetLatestPrice, history from GetPrices(item.ID, 5); readFault:
\* the query that fails, if any.  Both alerts end in a log line and a TODO:
\* nothing is handed to the notifiers.
EvaluateAlerts(item, rules, latest, history, readFault) ==
    LET quiet == [err |-> NoError, alerts |-> {}, handed |-> <<>>]
    IN  IF readFault = "latest"
        THEN [quiet EXCEPT !.err = "failed to get latest price"]
        ELSE IF latest = Nil THEN quiet
        ELSE IF readFault = "history"
        THEN [quiet EXCEPT !.err = "failed to get price history"]
        ELSE IF Len(history) < 2 THEN quiet
        ELSE LET cur == Deref(latest)
                 target ==
                    IF TargetReached(item, cur)
                    THEN {[item |-> item.ID, kind |-> "target_reached",
                           current |-> cur.Price,
                           target |-> Deref(item.TargetPrice)]}
                    ELSE {}
                 percentDrop == EffectivePercentDrop(item, rules)
                 previousPrice == PreviousPrice(history)
                 dropPercent == DropPercent(previousPrice, cur.Price)
                 dropped ==
                    IF percentDrop > 0 /\ FloatGe(dropPercent, percentDrop)
                    THEN {[item |-> item.ID, kind |-> "percent_drop",
                           current |-> cur.Price, previous |-> previousPrice,
                           drop_percent |-> dropPercent]}
                    ELSE {}
             IN  [err |-> NoError, alerts |-> target \cup dropped, handed |-> <<>>]

\* Tracker.checkItemAlerts(ctx, item): the two queries, one after the other,
\* and the evaluation of what they returned
checkItemAlerts(table, item, rules, readFault) ==
    EvaluateAlerts(item, rules, GetLatestPrice(table, item.ID),
                   GetPrices(table, item.ID, 5), readFault)

\* the loop of Tracker.CheckAlerts from item i on
RECURSIVE CheckAlertsLoop(_, _, _, _, _, _)
CheckAlertsLoop(table, items, rules, faults, i, acc) ==
    IF i > Len(items) THEN acc
    ELSE LET r == checkItemAlerts(table, items[i], rules, faults[i])
         IN  CheckAlertsLoop(table, items, rules, faults, i + 1,
                [err |-> NoError,
                 evaluated |-> Append(acc.evaluated, [item |-> items[i].ID, err |-> r.err]),
                 alerts |-> acc.alerts \cup r.alerts,
                 handed |-> acc.handed \o r.handed])

\* Tracker.CheckAlerts(ctx): a failed item is logged and skipped
CheckAlerts(table, items, rules, faults) ==
    CheckAlertsLoop(table, items, rules, faults, 1,
        [err |-> NoError, evaluated |-> <<>>, alerts |-> {}, handed |-> <<>>])

---------------------------------------------------------------------------
(* internal/notifications *)

\* the channels, in the order New looks at them
Channels == <<"email", "telegram", "slack", "ntfy">>
ChannelSet == {Channels[i] : i \in 1..Len(Channels)}

\* notifications.New(cfg): one notifier per channel whose Enabled flag is set,
\* appended in the order email, telegram, slack, ntfy
New(cfg) == SelectSeq(Channels, LAMBDA c : cfg[c])

\* Send as it would be with `break` after the log line of a failed notifier
RECURSIVE SendBreakLoop(_, _, _, _, _)
SendBreakLoop(list, message, outcomes, i, log) ==
    IF i > Len(list)
    THEN [err |-> NoError, attempts |-> log]
    ELSE LET attempt == [channel |-> list[i], message |-> message, err |-> outcomes[i]]
         IN  IF outcomes[i] # NoError
             THEN [err |-> NoError, attempts |-> Append(log, attempt)]
             ELSE SendBreakLoop(list, message, outcomes, i + 1, Append(log, attempt))

SendStopsAtFailure(list, message, outcomes) ==
    SendBreakLoop(list, message, outcomes, 1, <<>>)

\* the loop of NotificationManager.Send from notifier i on: a failed
\* notifier is logged and the loop goes on
RECURSIVE SendLoop(_, _, _, _, _)
SendLoop(list, message, outcomes, i, log) ==
    IF i > Len(list)
    THEN [err |-> NoError, attempts |-> log]
    ELSE SendLoop(list, message, outcomes, i + 1,
                  Append(log, [channel |-> list[i], message |-> message,
                               err |-> outcomes[i]]))

\* Send as it would be if it kept the last notifier error and returned it
SendReturnsLastError(list, message, outcomes) ==
    LET r == SendLoop(list, message, outcomes, 1, <<>>)
        failed == {i \in 1..Len(list) : outcomes[i] # NoError}
    IN  IF failed = {} THEN r
        ELSE [r EXCEPT !.err = "failed to send notification"]

\* NotificationManager.Send(ctx, message); outcomes[i]: what notifier i's
\* Send returned
Send(list, message, outcomes) == SendLoop(list, message, outcomes, 1, <<>>)

---------------------------------------------------------------------------
(* internal/cli and main *)

\* trackOnce's conversion of a storage.Item to a config.ItemConfig
ToItemConfig(item) ==
    ItemConfig(item.ID, item.Provider, item.URL, item.Currency,
               item.TargetPrice, item.PercentDrop)

\* CLI.trackOnce(ctx, itemID, ...); itemID "" tracks all configured items
trackOnce(table, items, stored, itemID, getFault, ins) ==
    IF itemID # ""
    THEN IF getFault
         THEN [err |-> "failed to get item", prices |-> table, calls |-> <<>>]
         ELSE LET item == GetItem(stored, itemID)
              IN  IF item = Nil
                  THEN [err |-> "item not found", prices |-> table, calls |-> <<>>]
                  ELSE LET r == TrackItem(table, ToItemConfig(Deref(item)), ins[1])
                       IN  [err |-> r.err, prices |-> r.prices, calls |-> <<r.call>>]
    ELSE TrackAll(table, items, ins)

\* A product name is a sequence of characters (one-character strings).

\* strings.ToLower on one character (of those the names explored are made of)
ToLower(c) ==
    CASE c = "S" -> "s"
      [] c = "D" -> "d"
      [] OTHER -> c

\* the characters the pattern [^a-z0-9-] leaves in place (of those that occur)
IDChars == {"s", "d", "i", "t", "e", "m", "1", "-"}

\* generateItemID on one character: lower case, space and underscore to a
\* dash, then every character outside a-z, 0-9 and the dash removed
SlugChar(c) ==
    LET lower == ToLower(c)
        dashed == IF lower \in {" ", "_"} THEN "-" ELSE lower
    IN  IF dashed \in IDChars THEN dashed ELSE ""

RECURSIVE Slug(_)
Slug(name) == IF name = <<>> THEN "" ELSE SlugChar(Head(name)) \o Slug(Tail(name))

\* CLI.generateItemID(name) at the second unix: fmt.Sprintf("%s-%d", id, time.Now().Unix())
generateItemID(name, unix) ==
    LET id == Slug(name)
    IN  (IF id = "" THEN "item" ELSE id) \o "-" \o ToString(unix)

\* CLI.handleAdd with the flags f at the second unix; rulesPercentDrop and
\* defaultCurrency: the configuration's; dbFault: the INSERT fails
handleAdd(items, rulesPercentDrop, defaultCurrency, f, unix, dbFault) ==
    IF f.name = <<>> THEN [err |-> "name is required", items |-> items, id |-> ""]
    ELSE IF f.url = "" THEN [err |-> "url is required", items |-> items, id |-> ""]
    ELSE IF f.provider = "generic" /\ f.selector = ""
    THEN [err |-> "selector is required for generic provider", items |-> items, id |-> ""]
    ELSE IF f.provider = "exec" /\ f.command = ""
    THEN [err |-> "command is required for exec provider", items |-> items, id |-> ""]
    ELSE LET currency == IF f.currency = "" THEN defaultCurrency ELSE f.currency
             percent == IF f.percent = 0 THEN rulesPercentDrop ELSE f.percent
             item == ItemConfig(generateItemID(f.name, unix), f.provider, f.url, currency,
                                IF f.target > 0 THEN Ptr(f.target) ELSE Nil,
                                IF percent > 0 THEN Ptr(percent) ELSE Nil)
             save == SaveItem(items, item, dbFault)
         IN  [err |-> save.err, items |-> save.items, id |-> item.ID]

\* what provider.Fetch learns of `--no-cache`: handleTrack hands the flag to
\* trackOnce, which uses it nowhere; TrackItem and TrackAll take no such
\* argument and call provider.Fetch(ctx, item)
ForcedRefresh(noCache) == FALSE

\* trackLoop as it would be with `return err` after the log line of a failed run
AfterRunReturnsOnError(err) == IF err # NoError THEN "returned" ELSE "select"

\* trackLoop after a tracking run that returned err: the error is logged, if
\* any, and the loop goes back to its select
AfterRun(err) == "select"

\* main: the process exit status for the error Execute returned
ExitStatus(err) == IF err # NoError THEN 1 ELSE 0

---------------------------------------------------------------------------
(* The configurations and inputs explored *)

\* the ids `track --id` is tried with: one that may be stored, one that never is
ItemIDs == {"a", "b"}

\* the item the evaluator is exercised on: every threshold combination
EvalItems ==
    {ItemConfig("a", "exec", "shop/volatile", "USD", t, d) :
        t \in {Nil, Ptr(93)}, d \in {Nil, Ptr(0), Ptr(5)}}

\* the items tracking runs are exercised on: one that answers, one whose
\* listing is down, one whose provider is unknown
TrackItems ==
    {ItemConfig("b", "generic", "shop/steady", "USD", Nil, Nil),
     ItemConfig("c", "generic", "shop/down", "USD", Nil, Nil),
     ItemConfig("d", "bogus", "shop/steady", "USD", Nil, Nil)}

RECURSIVE SeqsUpTo(_, _)
SeqsUpTo(S, n) ==
    IF n = 0 THEN {<<>>}
    ELSE LET shorter == SeqsUpTo(S, n - 1)
         IN  shorter \cup {Append(q, x) : q \in shorter, x \in S}

\* one input per item of the list, each drawn from what that item can meet
RECURSIVE InputSeqs(_)
InputSeqs(items) ==
    IF items = <<>> THEN {<<>>}
    ELSE {<<x>> \o rest : x \in TrackInputs(Head(items)), rest \in InputSeqs(Tail(items))}

ReadFaults == {"none", "latest", "history"}

---------------------------------------------------------------------------
(* The state machine *)

\* the values of the variables a specification does not use
NoCall ==
    [name |-> "none", id |-> "", limit |-> 0, price |-> 0, currency |-> "",
     meta |-> NilMeta, fault |-> "none", samples |-> <<>>, latest |-> Nil]

StoreIdle == lastCall = NoCall

NotifyIdle ==
    /\ enabled = [c \in ChannelSet |-> FALSE]
    /\ notifiers = <<>>
    /\ attempts = <<>>

RaceIdle ==
    /\ evalPc = "idle"
    /\ evalLatest = Nil
    /\ compared = Nil

LoopIdle ==
    /\ loopPc = "off"
    /\ ctxDone = FALSE
    /\ tickPending = 0
    /\ running = 0
    /\ elapsed = 0
    /\ loopItemID = ""
    /\ loopLog = <<>>

\* no fetch through the resilience layer has been made
NoFetch ==
    [id |-> "", noCache |-> FALSE, at |-> 0, live |-> FALSE, stored |-> Nil,
     tries |-> 0, causes |-> <<>>, err |-> NoError, cause |-> "",
     sample |-> ZeroSample, entry |-> Nil]

FetchIdle ==
    /\ yamlAttempts = 0
    /\ retryAttempts = 0
    /\ cacheTTL = 0
    /\ fetchCache = <<>>
    /\ fetchClock = 0
    /\ lastFetch = NoFetch

BackoffIdle ==
    /\ baseDelay = 0
    /\ maxDelay = 0
    /\ tryNo = 0
    /\ jitter = Nil
    /\ delayParts = <<>>

NoAdd == [id |-> "", err |-> NoError, existed |-> FALSE]

WatchIdle ==
    /\ unixTime = 0
    /\ added = 0
    /\ lastAdd = NoAdd

CsvIdle ==
    /\ csvPc = "off"
    /\ csvItems = <<>>
    /\ csvFile = <<>>
    /\ csvImported = <<>>
    /\ csvErr = NoError

SideIdle == FetchIdle /\ BackoffIdle /\ WatchIdle /\ CsvIdle

Init ==
    /\ StoreIdle /\ NotifyIdle /\ RaceIdle /\ LoopIdle /\ SideIdle
    /\ \/ /\ rulesDrop \in {LoadRulesPercentDrop(0), LoadRulesPercentDrop(20)}
          \* (a rules value other than the default is tried on the items that fall back to it)
          /\ cfgItems \in {<<it>> : it \in {e \in EvalItems :
                                rulesDrop # DefaultPercentDrop => e.PercentDrop = Nil}}
          /\ dbItems = {}
       \/ /\ cfgItems \in SeqsUpTo(TrackItems, MaxItems)
          /\ rulesDrop = LoadRulesPercentDrop(0)
          /\ dbItems \in {{}, {ItemConfig("b", "generic", "shop/steady", "USD", Nil, Nil)}}
    /\ prices = <<>>
    /\ op = "start"
    /\ ret = NoError
    /\ tracked = <<>>
    /\ evaluated = <<>>
    /\ alerts = {}
    /\ handed = <<>>

\* `pricetrek track --once`: every configured item
TrackOnceAll ==
    /\ Now(prices) <= MaxRows
    /\ \E ins \in InputSeqs(cfgItems) :
          LET r == trackOnce(prices, cfgItems, dbItems, "", FALSE, ins)
          IN  /\ prices' = r.prices
              /\ ret' = r.err
              /\ tracked' = r.calls
    /\ op' = "trackAll"
    /\ evaluated' = <<>>
    /\ alerts' = {}
    /\ handed' = <<>>
    /\ lastCall' = NoCall
    /\ UNCHANGED <<cfgItems, rulesDrop, dbItems, notifyVars, raceVars, loopVars, sideVars>>

\* `pricetrek track --once --id <itemID>`: one stored item
TrackOnceItem ==
    /\ Now(prices) <= MaxRows
    /\ \E itemID \in ItemIDs, getFault \in BOOLEAN :
          LET item == GetItem(dbItems, itemID)
              inputs == IF item = Nil THEN {<<>>}
                        ELSE {<<x>> : x \in TrackInputs(ToItemConfig(Deref(item)))}
          IN  \E ins \in inputs :
                 LET r == trackOnce(prices, cfgItems, dbItems, itemID, getFault, ins)
                 IN  /\ prices' = r.prices
                     /\ ret' = r.err
                     /\ tracked' = r.calls
    /\ op' = "trackItem"
    /\ evaluated' = <<>>
    /\ alerts' = {}
    /\ handed' = <<>>
    /\ lastCall' = NoCall
    /\ UNCHANGED <<cfgItems, rulesDrop, dbItems, notifyVars, raceVars, loopVars, sideVars>>

\* Tracker.CheckAlerts over the configured items
CheckAlertsRun ==
    /\ \E faults \in [1..Len(cfgItems) -> ReadFaults] :
          LET r == CheckAlerts(prices, cfgItems, rulesDrop, faults)
          IN  /\ ret' = r.err
              /\ evaluated' = r.evaluated
              /\ alerts' = r.alerts
              /\ handed' = r.handed
    /\ op' = "checkAlerts"
    /\ tracked' = <<>>
    /\ lastCall' = NoCall
    /\ UNCHANGED <<cfgItems, rulesDrop, dbItems, prices, notifyVars, raceVars, loopVars, sideVars>>

Next == TrackOnceAll \/ TrackOnceItem \/ CheckAlertsRun

Spec == Init /\ [][Next]_vars

---------------------------------------------------------------------------
(* SpecRace: one process evaluates an item, query by query, while another  *)
(* process (a `pricetrek track --once` started by the generated schedule)  *)
(* tracks the same item on the same database file.  Each query and each    *)
(* INSERT is one step.                                                     *)

RaceItem == ItemConfig("a", "exec", "shop/sale", "USD", Nil, Nil)

InitRace ==
    /\ cfgItems = <<RaceItem>>
    /\ rulesDrop = LoadRulesPercentDrop(0)
    /\ dbItems = {}
    /\ prices = <<>>
    /\ op = "start"
    /\ ret = NoError
    /\ tracked = <<>>
    /\ evaluated = <<>>
    /\ alerts = {}
    /\ handed = <<>>
    /\ StoreIdle /\ NotifyIdle /\ RaceIdle /\ LoopIdle /\ SideIdle

\* the other process: Tracker.TrackItem for the item
RaceTrackItem ==
    /\ Now(prices) <= MaxRows
    /\ \E in \in TrackInputs(cfgItems[1]) :
          prices' = TrackItem(prices, cfgItems[1], in).prices
    /\ UNCHANGED <<cfgItems, rulesDrop, dbItems, op, ret, tracked, evaluated,
                   alerts, handed, lastCall, notifyVars, raceVars, loopVars, sideVars>>

\* checkItemAlerts, its first query: GetLatestPrice.  On an error, or with
\* no sample stored, the evaluation returns here.
RaceGetLatest ==
    /\ evalPc \in {"idle", "done"}
    /\ \E readFault \in {"none", "latest"} :
          LET latest == GetLatestPrice(prices, cfgItems[1].ID)
          IN  IF readFault = "latest" \/ latest = Nil
              THEN LET r == EvaluateAlerts(cfgItems[1], rulesDrop, latest, <<>>, readFault)
                   IN  /\ evalPc' = "done"
                       /\ evalLatest' = Nil
                       /\ ret' = r.err
              ELSE /\ evalPc' = "latest"
                   /\ evalLatest' = latest
                   /\ ret' = NoError
    /\ op' = "checkItemAlerts"
    /\ alerts' = {}
    /\ compared' = Nil
    /\ UNCHANGED <<cfgItems, rulesDrop, dbItems, prices, tracked, evaluated,
                   handed, lastCall, notifyVars, loopVars, sideVars>>

\* checkItemAlerts, its second query, GetPrices(item.ID, 5), and the checks
\* on what the two queries returned
RaceGetHistory ==
    /\ evalPc = "latest"
    /\ \E readFault \in {"none", "history"} :
          LET history == GetPrices(prices, cfgItems[1].ID, 5)
              r == EvaluateAlerts(cfgItems[1], rulesDrop, evalLatest, history, readFault)
          IN  /\ ret' = r.err
              /\ alerts' = r.alerts
              /\ compared' =
                    IF readFault = "none" /\ Len(history) >= 2
                    THEN Ptr([current |-> Deref(evalLatest), previous |-> history[2]])
                    ELSE Nil
    /\ evalPc' = "done"
    /\ UNCHANGED <<cfgItems, rulesDrop, dbItems, prices, op, tracked, evaluated,
                   handed, lastCall, notifyVars, evalLatest, loopVars, sideVars>>

NextRace == RaceTrackItem \/ RaceGetLatest \/ RaceGetHistory

SpecRace == InitRace /\ [][NextRace]_vars

---------------------------------------------------------------------------
(* SpecStore: the calls of the storage interface, one at a time, on the    *)
(* items a and b, together with the tracking of a stored item and the      *)
(* evaluation of the configured one.                                      *)

StoreIDs == {"a", "b"}

\* the metadata maps SavePrice is called with: none, one of JSON's own
\* types (a bool and a float64), one holding a Go int
RatedMeta == [nil |-> FALSE, kv |-> {<<"in_stock", GoBool(TRUE)>>, <<"rating", GoFloat64(4)>>}]
ViewsMeta == [nil |-> FALSE, kv |-> {<<"views", GoInt(3)>>}]

StoreSamples ==
    {[Price |-> 100, Currency |-> "USD", Meta |-> NilMeta],
     [Price |-> 91, Currency |-> "USD", Meta |-> RatedMeta],
     [Price |-> 91, Currency |-> "EUR", Meta |-> ViewsMeta]}

\* the item SaveItem is called with
StoreItems ==
    {ItemConfig("a", "generic", "shop/steady", "USD", Nil, Nil)}

\* the limits GetPrices is called with (`show --limit` passes any integer on)
Limits == {-1, 0, 1, 2, 5}

InitStore ==
    /\ cfgItems = <<ItemConfig("a", "generic", "shop/steady", "USD", Nil, Nil)>>
    /\ rulesDrop = LoadRulesPercentDrop(0)
    /\ dbItems = {}
    /\ prices = <<>>
    /\ op = "start"
    /\ ret = NoError
    /\ tracked = <<>>
    /\ evaluated = <<>>
    /\ alerts = {}
    /\ handed = <<>>
    /\ StoreIdle /\ NotifyIdle /\ RaceIdle /\ LoopIdle /\ SideIdle

\* what every storage call leaves alone
StoreFrame ==
    /\ tracked' = <<>>
    /\ evaluated' = <<>>
    /\ alerts' = {}
    /\ handed' = <<>>
    /\ UNCHANGED <<cfgItems, rulesDrop, notifyVars, raceVars, loopVars, sideVars>>

StoreSavePrice ==
    /\ Now(prices) <= MaxStoreRows
    /\ \E id \in StoreIDs, s \in StoreSamples, dbFault \in BOOLEAN :
          LET r == SavePrice(prices, id, s.Price, s.Currency, s.Meta, dbFault)
          IN  /\ prices' = r.prices
              /\ ret' = r.err
              /\ lastCall' = [NoCall EXCEPT !.name = "SavePrice", !.id = id,
                                 !.price = s.Price, !.currency = s.Currency,
                                 !.meta = s.Meta]
    /\ op' = "SavePrice"
    /\ UNCHANGED dbItems
    /\ StoreFrame

StoreGetPrices ==
    /\ \E id \in StoreIDs, limit \in Limits, queryFault \in BOOLEAN :
          /\ ret' = IF queryFault THEN "failed to query prices" ELSE NoError
          /\ lastCall' = [NoCall EXCEPT !.name = "GetPrices", !.id = id, !.limit = limit,
                             !.samples = IF queryFault THEN <<>>
                                         ELSE GetPrices(prices, id, limit)]
    /\ op' = "GetPrices"
    /\ UNCHANGED <<dbItems, prices>>
    /\ StoreFrame

StoreGetLatestPrice ==
    /\ \E id \in StoreIDs, queryFault \in BOOLEAN :
          /\ ret' = IF queryFault THEN "failed to get latest price" ELSE NoError
          /\ lastCall' = [NoCall EXCEPT !.name = "GetLatestPrice", !.id = id,
                             !.latest = IF queryFault THEN Nil
                                        ELSE GetLatestPrice(prices, id)]
    /\ op' = "GetLatestPrice"
    /\ UNCHANGED <<dbItems, prices>>
    /\ StoreFrame

StoreSaveItem ==
    /\ \E item \in StoreItems, dbFault \in BOOLEAN :
          LET r == SaveItem(dbItems, item, dbFault)
          IN  /\ dbItems' = r.items
              /\ ret' = r.err
              /\ lastCall' = [NoCall EXCEPT !.name = "SaveItem", !.id = item.ID]
    /\ op' = "SaveItem"
    /\ UNCHANGED prices
    /\ StoreFrame

StoreDeleteItem ==
    /\ \E id \in StoreIDs, fault \in {"none", "items", "prices"} :
          LET r == DeleteItem(dbItems, prices, id, fault)
          IN  /\ dbItems' = r.items
              /\ prices' = r.prices
              /\ ret' = r.err
              /\ lastCall' = [NoCall EXCEPT !.name = "DeleteItem", !.id = id,
                                 !.fault = fault]
    /\ op' = "DeleteItem"
    /\ StoreFrame

NextStore ==
    \/ StoreSavePrice
    \/ StoreGetPrices
    \/ StoreGetLatestPrice
    \/ StoreSaveItem
    \/ StoreDeleteItem
    \/ TrackOnceItem
    \/ CheckAlertsRun

SpecStore == InitStore /\ [][NextStore]_vars

---------------------------------------------------------------------------
(* SpecLoop: `pricetrek track --loop`.  CLI.trackLoop waits in a select on *)
(* ctx.Done() and ticker.C; a tick starts a tracking run (trackOnce).  The *)
(* ticker's channel holds one tick at most.  The context is the one        *)
(* trackLoop is called with, and it may be cancelled at any moment.  With  *)
(* a cancelled context every call of database/sql that takes the context   *)
(* fails.                                                                  *)

LoopItem == ItemConfig("b", "generic", "shop/steady", "USD", Nil, Nil)

InitLoop ==
    /\ cfgItems = <<LoopItem>>
    /\ rulesDrop = LoadRulesPercentDrop(0)
    /\ dbItems = {LoopItem}
    /\ prices = <<>>
    /\ op = "start"
    /\ ret = NoError
    /\ tracked = <<>>
    /\ evaluated = <<>>
    /\ alerts = {}
    /\ handed = <<>>
    /\ StoreIdle /\ NotifyIdle /\ RaceIdle /\ SideIdle
    /\ loopPc = "select"
    /\ ctxDone = FALSE
    /\ tickPending = 0
    /\ running = 0
    /\ elapsed = 0
    /\ loopItemID \in {""} \cup ItemIDs
    /\ loopLog = <<>>

LoopFrame ==
    UNCHANGED <<cfgItems, rulesDrop, dbItems, evaluated, alerts, handed,
                lastCall, notifyVars, raceVars, loopItemID, sideVars>>

\* the ticker as it would be if its channel took every tick
TickerSendQueues(pending) == pending + 1

\* time.Ticker sends on a channel that holds one tick: a tick that finds one
\* waiting there is dropped
TickerSend(pending) == IF pending < 1 THEN pending + 1 ELSE pending

\* the ticker fires
LoopTick ==
    /\ loopPc \in {"select", "run", "runCancelled"}
    /\ elapsed < MaxTicks
    /\ tickPending' = TickerSend(tickPending)
    /\ elapsed' = elapsed + 1
    /\ UNCHANGED <<prices, op, ret, tracked, loopPc, ctxDone, running, loopLog>>
    /\ LoopFrame

\* the context is cancelled
LoopCancel ==
    /\ loopPc \in {"select", "run", "runCancelled"}
    /\ ~ctxDone
    /\ ctxDone' = TRUE
    /\ UNCHANGED <<prices, op, ret, tracked, loopPc, tickPending, running, elapsed, loopLog>>
    /\ LoopFrame

\* the select takes `case <-ctx.Done()`: trackLoop returns ctx.Err()
LoopSelectDone ==
    /\ loopPc = "select"
    /\ ctxDone
    /\ loopPc' = "returned"
    /\ ret' = "context canceled"
    /\ op' = "trackLoop"
    /\ UNCHANGED <<prices, tracked, ctxDone, tickPending, running, elapsed, loopLog>>
    /\ LoopFrame

\* the select takes `case <-ticker.C`: a tracking run starts.  When both
\* cases are ready the select takes either.
LoopSelectTick ==
    /\ loopPc = "select"
    /\ tickPending > 0
    /\ Len(loopLog) < MaxRuns
    /\ tickPending' = tickPending - 1
    /\ running' = running + 1
    /\ elapsed' = 0
    /\ loopPc' = IF ctxDone THEN "runCancelled" ELSE "run"
    /\ UNCHANGED <<prices, op, ret, tracked, ctxDone, loopLog>>
    /\ LoopFrame

\* what one TrackItem call can meet once the context is cancelled: its
\* INSERT, if it gets that far, fails
CancelledInputs(item) ==
    {in \in TrackInputs(item) :
        (in.fetch.err = NoError /\ GetProvider(item.Provider) = NoError) => in.dbFault}

\* the inputs of a run over items whose context is cancelled before item k
RECURSIVE RunInputs(_, _, _)
RunInputs(items, i, k) ==
    IF i > Len(items) THEN {<<>>}
    ELSE {<<x>> \o rest :
             x \in IF i >= k THEN CancelledInputs(items[i]) ELSE TrackInputs(items[i]),
             rest \in RunInputs(items, i + 1, k)}

\* the tracking run comes back: trackOnce has returned, a failure is logged,
\* and trackLoop is at its select again
LoopRunReturns ==
    /\ loopPc \in {"run", "runCancelled"}
    /\ LET stored == GetItem(dbItems, loopItemID)
           items == IF loopItemID = "" THEN cfgItems
                    ELSE IF stored = Nil THEN <<>>
                    ELSE <<ToItemConfig(Deref(stored))>>
           \* the first item that meets the cancelled context
           from == IF loopPc = "runCancelled" THEN {1}
                   ELSE IF ctxDone THEN 1..(Len(items) + 1)
                   ELSE {Len(items) + 1}
           getFaults == IF loopPc = "runCancelled" THEN {TRUE} ELSE BOOLEAN
       IN  \E k \in from, getFault \in getFaults :
           \E ins \in RunInputs(items, 1, k) :
              LET r == trackOnce(prices, cfgItems, dbItems, loopItemID, getFault, ins)
              IN  /\ prices' = r.prices
                  /\ ret' = r.err
                  /\ tracked' = r.calls
                  /\ loopLog' = Append(loopLog,
                                    [afterCancel |-> loopPc = "runCancelled",
                                     err |-> r.err])
                  /\ loopPc' = AfterRun(r.err)
    /\ op' = "trackOnce"
    /\ running' = running - 1
    /\ UNCHANGED <<ctxDone, tickPending, elapsed>>
    /\ LoopFrame

NextLoop ==
    \/ LoopTick
    \/ LoopCancel
    \/ LoopSelectDone
    \/ LoopSelectTick
    \/ LoopRunReturns

SpecLoop == InitLoop /\ [][NextLoop]_vars

---------------------------------------------------------------------------
(* SpecFetch: `pricetrek track`, with or without --no-cache, of one item   *)
(* whose fetches go through the resilience layer, while time passes.  The  *)
(* seconds a fetch and its retries take do not move the clock, which       *)
(* counts minutes; the INSERT of the sample fetched succeeds.              *)
(* SpecRetry: the same command under every retry configuration, at one     *)
(* time.                                                                   *)

FetchItem == ItemConfig("a", "generic", "shop/sale", "USD", Nil, Nil)

\* what the tries of one fetch can end in: one outcome per try allowed
TryOutcomeSeqs(limit) == [1..limit -> TryOutcomes]

\* the defaults section of pricetrek.yaml: retry attempts and cache TTL (0: not set)
InitFetchWith(yamls) ==
    /\ cfgItems = <<FetchItem>>
    /\ rulesDrop = LoadRulesPercentDrop(0)
    /\ dbItems = {FetchItem}
    /\ prices = <<>>
    /\ op = "start"
    /\ ret = NoError
    /\ tracked = <<>>
    /\ evaluated = <<>>
    /\ alerts = {}
    /\ handed = <<>>
    /\ StoreIdle /\ NotifyIdle /\ RaceIdle /\ LoopIdle /\ BackoffIdle /\ WatchIdle /\ CsvIdle
    /\ \E c \in yamls :
          /\ yamlAttempts = c.attempts
          /\ retryAttempts = LoadRetryAttempts(c.attempts)
          /\ cacheTTL = LoadCacheTTL(c.ttl)
    /\ fetchCache = [fp \in {Fingerprint(FetchItem)} |-> Nil]
    /\ fetchClock = 0
    /\ lastFetch = NoFetch

\* `pricetrek track --once [--id a] [--no-cache]`
FetchTrack ==
    /\ Now(prices) <= MaxFetchRows
    /\ \E itemID \in {"", "a"}, noCache \in BOOLEAN,
          outcomes \in TryOutcomeSeqs(retryAttempts), raw \in Listing(FetchItem.URL) :
          LET item == IF itemID = "" THEN cfgItems[1]
                      ELSE ToItemConfig(Deref(GetItem(dbItems, itemID)))
              before == fetchCache[Fingerprint(item)]
              f == ResilientFetch(fetchCache, fetchClock, cacheTTL, retryAttempts,
                                  item, ForcedRefresh(noCache), outcomes, raw)
              in == [fetch |-> [err |-> f.err, sample |-> f.sample],
                     dbFault |-> FALSE]
              r == trackOnce(prices, cfgItems, dbItems, itemID, FALSE, <<in>>)
          IN  /\ prices' = r.prices
              /\ ret' = r.err
              /\ tracked' = r.calls
              /\ fetchCache' = f.cache
              /\ lastFetch' = [id |-> item.ID, noCache |-> noCache, at |-> fetchClock,
                               live |-> Live(before, fetchClock), stored |-> before,
                               tries |-> f.tries, causes |-> f.causes, err |-> f.err,
                               cause |-> f.cause, sample |-> f.sample,
                               entry |-> f.cache[Fingerprint(item)]]
    /\ op' = "track"
    /\ UNCHANGED <<cfgItems, rulesDrop, dbItems, evaluated, alerts, handed, lastCall,
                   notifyVars, raceVars, loopVars, yamlAttempts, retryAttempts,
                   cacheTTL, fetchClock, backoffVars, watchVars, csvVars>>

\* time passes: a minute, or a whole TTL
FetchAdvance ==
    /\ fetchClock <= MaxClock
    /\ \E d \in {1, cacheTTL} : fetchClock' = fetchClock + d
    /\ UNCHANGED <<pipeVars, lastCall, notifyVars, raceVars, loopVars, yamlAttempts,
                   retryAttempts, cacheTTL, fetchCache, lastFetch, backoffVars, watchVars, csvVars>>

InitFetch == InitFetchWith({[attempts |-> 1, ttl |-> 2], [attempts |-> 1, ttl |-> 0]})

NextFetch == FetchTrack \/ FetchAdvance

SpecFetch == InitFetch /\ [][NextFetch]_vars

InitRetry ==
    InitFetchWith({[attempts |-> 0, ttl |-> 0], [attempts |-> 1, ttl |-> 0],
                   [attempts |-> 2, ttl |-> 0]})

NextRetry == FetchTrack

SpecRetry == InitRetry /\ [][NextRetry]_vars

---------------------------------------------------------------------------
(* SpecBackoff: the delays before the tries of one fetch whose tries all   *)
(* fail, under several retry configurations (milliseconds; 0: not set).    *)

RetryYamls ==
    {[base |-> 0, max |-> 0], [base |-> 3000, max |-> 0], [base |-> 5, max |-> 3],
     [base |-> 2, max |-> 16], [base |-> 1, max |-> 500]}

InitBackoff ==
    /\ cfgItems = <<FetchItem>>
    /\ rulesDrop = LoadRulesPercentDrop(0)
    /\ dbItems = {FetchItem}
    /\ prices = <<>>
    /\ op = "start"
    /\ ret = NoError
    /\ tracked = <<>>
    /\ evaluated = <<>>
    /\ alerts = {}
    /\ handed = <<>>
    /\ StoreIdle /\ NotifyIdle /\ RaceIdle /\ LoopIdle /\ FetchIdle /\ WatchIdle /\ CsvIdle
    /\ \E c \in RetryYamls :
          /\ baseDelay = LoadBaseDelay(c.base)
          /\ maxDelay = LoadMaxDelay(c.max)
    /\ tryNo = 1
    /\ jitter = Nil
    /\ delayParts = <<>>

\* a try failed with a retryable failure (the first, or one made after its
\* delay): the exponential part of the delay before the next try
BackoffFailure ==
    /\ tryNo < MaxTry
    /\ tryNo = 1 \/ jitter # Nil
    /\ tryNo' = tryNo + 1
    /\ jitter' = Nil
    /\ delayParts' = <<ExponentialPart(tryNo + 1, baseDelay, maxDelay)>>
                       \o SubSeq(delayParts, 1, Min(1, Len(delayParts)))
    /\ UNCHANGED <<pipeVars, lastCall, notifyVars, raceVars, loopVars, fetchVars,
                   baseDelay, maxDelay, watchVars, csvVars>>

\* the jitter of that delay is drawn and the delay slept
BackoffSleep ==
    /\ tryNo >= 2
    /\ jitter = Nil
    /\ \E drawn \in Jitters(baseDelay) : jitter' = Ptr(drawn)
    /\ UNCHANGED <<pipeVars, lastCall, notifyVars, raceVars, loopVars, fetchVars,
                   baseDelay, maxDelay, tryNo, delayParts, watchVars, csvVars>>

NextBackoff == BackoffFailure \/ BackoffSleep

SpecBackoff == InitBackoff /\ [][NextBackoff]_vars

---------------------------------------------------------------------------
(* SpecWatch: the watchlist.  `pricetrek add` commands, as seconds pass,    *)
(* and `pricetrek track --once` runs over all items, started from the       *)
(* configuration `pricetrek init` writes (no items) or from one that lists  *)
(* an item.                                                                 *)

\* config.Load: the currency of the defaults section when the file sets none
DefaultCurrency == "USD"

AddFlags(name, url, provider, selector, command) ==
    [name |-> name, url |-> url, provider |-> provider, selector |-> selector,
     command |-> command, currency |-> "", target |-> 0, percent |-> 0]

\* the `pricetrek add` command lines tried
AddCommands ==
    {AddFlags(<<"S", "S", "D", " ", "1">>, "shop/steady", "generic", ".price", ""),
     AddFlags(<<"s", "s", "d", "_", "1">>, "shop/sale", "generic", ".price", ""),
     AddFlags(<<"!", "!">>, "shop/steady", "exec", "", "cmd"),
     AddFlags(<<"i", "t", "e", "m">>, "shop/sale", "generic", ".price", ""),
     AddFlags(<<>>, "shop/steady", "generic", ".price", ""),
     AddFlags(<<"S", "S", "D", " ", "1">>, "", "generic", ".price", ""),
     AddFlags(<<"S", "S", "D", " ", "1">>, "shop/steady", "generic", "", ""),
     AddFlags(<<"S", "S", "D", " ", "1">>, "shop/steady", "exec", "", "")}

InitWatch ==
    /\ cfgItems \in {<<>>, <<ItemConfig("b", "generic", "shop/steady", "USD", Nil, Nil)>>}
    /\ rulesDrop = LoadRulesPercentDrop(0)
    /\ dbItems = {}
    /\ prices = <<>>
    /\ op = "start"
    /\ ret = NoError
    /\ tracked = <<>>
    /\ evaluated = <<>>
    /\ alerts = {}
    /\ handed = <<>>
    /\ StoreIdle /\ NotifyIdle /\ RaceIdle /\ LoopIdle /\ FetchIdle /\ BackoffIdle /\ CsvIdle
    /\ unixTime = 1
    /\ added = 0
    /\ lastAdd = NoAdd

\* `pricetrek add --name ... --url ...`
WatchAdd ==
    /\ added < MaxAdds
    /\ \E f \in AddCommands, dbFault \in BOOLEAN :
          LET r == handleAdd(dbItems, rulesDrop, DefaultCurrency, f, unixTime, dbFault)
          IN  /\ dbItems' = r.items
              /\ ret' = r.err
              /\ added' = IF r.err = NoError THEN added + 1 ELSE added
              /\ lastAdd' = [id |-> r.id, err |-> r.err,
                             existed |-> \E it \in dbItems : it.ID = r.id]
    /\ op' = "add"
    /\ tracked' = <<>>
    /\ UNCHANGED <<cfgItems, rulesDrop, prices, evaluated, alerts, handed, lastCall,
                   notifyVars, raceVars, loopVars, fetchVars, backoffVars, unixTime, csvVars>>

\* a second passes
WatchTick ==
    /\ unixTime < MaxUnix
    /\ unixTime' = unixTime + 1
    /\ UNCHANGED <<pipeVars, lastCall, notifyVars, raceVars, loopVars, fetchVars,
                   backoffVars, added, lastAdd, csvVars>>

NextWatch == WatchAdd \/ WatchTick \/ TrackOnceAll

SpecWatch == InitWatch /\ [][NextWatch]_vars

---------------------------------------------------------------------------
(* SpecCsv: the watchlist written by ExportItems and read by ImportItems    *)
(* (internal/csv). Here a string is the sequence of its characters, so that *)
(* quoting, line ends and number formatting are computed as encoding/csv,   *)
(* fmt and strconv compute them; a run of letters that holds none of the    *)
(* characters CSV treats specially (comma, quote, CR, LF, leading space) is *)
(* written as one element. A float64 counts thousandths.                    *)

MaxCsvItems == 2

ErrBareQuote == "bare \" in non-quoted-field"
ErrQuote == "extraneous or missing \" in quoted-field"
ErrFieldCount == "wrong number of fields"

\* the first position of text that holds one of chars, 0 when there is none
FirstIndex(text, chars) ==
    IF \E i \in 1..Len(text) : text[i] \in chars
    THEN CHOOSE i \in 1..Len(text) :
             text[i] \in chars /\ \A j \in 1..(i - 1) : text[j] \notin chars
    ELSE 0

RECURSIVE Concat(_)
Concat(texts) == IF texts = <<>> THEN <<>> ELSE Head(texts) \o Concat(Tail(texts))

\* fmt: the decimal digits of a natural number
RECURSIVE Digits(_)
Digits(n) == IF n < 10 THEN <<ToString(n)>> ELSE Digits(n \div 10) \o <<ToString(n % 10)>>

\* fmt.Sprintf("%.2f", x): x rounded to hundredths (no value used here lies
\* halfway between two hundredths)
Sprintf2f(x) ==
    LET a == IF x < 0 THEN 0 - x ELSE x
        h == (a + 5) \div 10
    IN  (IF x < 0 THEN <<"-">> ELSE <<>>)
            \o Digits(h \div 100) \o <<".">> \o Digits((h % 100) \div 10) \o Digits(h % 10)

IsDigit(c) == \E d \in 0..9 : c = ToString(d)
DigitVal(c) == CHOOSE d \in 0..9 : c = ToString(d)

RECURSIVE DecimalVal(_)
DecimalVal(digits) ==
    IF digits = <<>> THEN 0
    ELSE 10 * DecimalVal(SubSeq(digits, 1, Len(digits) - 1)) + DigitVal(digits[Len(digits)])

\* strconv.ParseFloat(s, 64) on the decimal notation: sign, digits, point,
\* digits (up to thousandths); anything else here is a syntax error
ParseFloat(s) ==
    LET signed == s # <<>> /\ s[1] \in {"-", "+"}
        body == IF signed THEN Tail(s) ELSE s
        dot == FirstIndex(body, {"."})
        whole == IF dot = 0 THEN body ELSE SubSeq(body, 1, dot - 1)
        frac == IF dot = 0 THEN <<>> ELSE SubSeq(body, dot + 1, Len(body))
        ok == /\ Len(whole) + Len(frac) > 0
              /\ Len(frac) <= 3
              /\ \A i \in 1..Len(whole) : IsDigit(whole[i])
              /\ \A i \in 1..Len(frac) : IsDigit(frac[i])
        padded == frac \o SubSeq(<<"0", "0", "0">>, 1, 3 - Len(frac))
        abs == 1000 * DecimalVal(whole) + DecimalVal(padded)
    IN  IF ok
        THEN [err |-> NoError, val |-> IF signed /\ s[1] = "-" THEN 0 - abs ELSE abs]
        ELSE [err |-> "invalid syntax", val |-> 0]

\* csv.Writer.fieldNeedsQuotes
fieldNeedsQuotes(field) ==
    IF field = <<>> THEN FALSE
    ELSE IF field = <<"\\", ".">> THEN TRUE
    ELSE \/ \E i \in 1..Len(field) : field[i] \in {",", "\"", "\r", "\n"}
         \/ field[1] = " "

\* csv.Writer.Write, one field: as it is, or between quotes with every quote doubled
WriteField(field) ==
    IF ~fieldNeedsQuotes(field) THEN field
    ELSE <<"\"">>
             \o Concat([i \in 1..Len(field) |->
                           IF field[i] = "\"" THEN <<"\"", "\"">> ELSE <<field[i]>>])
             \o <<"\"">>

\* csv.Writer.Write: the fields separated by commas, ended by a line feed
WriteRecord(record) ==
    Concat([i \in 1..Len(record) |->
               (IF i > 1 THEN <<",">> ELSE <<>>) \o WriteField(record[i])]) \o <<"\n">>

\* csv.Reader.readLine: the text up to the next line feed, CR LF read as LF
ReadLine(text) ==
    LET n == FirstIndex(text, {"\n"})
        raw == IF n = 0 THEN text ELSE SubSeq(text, 1, n)
        line == IF n >= 2 /\ raw[n - 1] = "\r" THEN SubSeq(raw, 1, n - 2) \o <<"\n">>
                ELSE IF n = 0 /\ raw # <<>> /\ raw[Len(raw)] = "\r"
                     THEN SubSeq(raw, 1, Len(raw) - 1)
                ELSE raw
    IN  [line |-> line, rest |-> IF n = 0 THEN <<>> ELSE SubSeq(text, n + 1, Len(text))]

WithoutNL(line) ==
    IF line # <<>> /\ line[Len(line)] = "\n" THEN SubSeq(line, 1, Len(line) - 1) ELSE line

\* csv.Reader.readRecord, inside a quoted field: up to the closing quote,
\* over as many lines as it takes
RECURSIVE QuotedField(_, _, _)
QuotedField(line, rest, acc) ==
    LET i == FirstIndex(line, {"\""})
        got == acc \o SubSeq(line, 1, i - 1)
        after == SubSeq(line, i + 1, Len(line))
    IN  IF i > 0
        THEN IF after # <<>> /\ after[1] = "\""
             THEN QuotedField(Tail(after), rest, Append(got, "\""))
             ELSE IF after # <<>> /\ after[1] = ","
             THEN [err |-> NoError, field |-> got, more |-> TRUE,
                   line |-> Tail(after), rest |-> rest]
             ELSE IF after \in {<<>>, <<"\n">>}
             THEN [err |-> NoError, field |-> got, more |-> FALSE,
                   line |-> <<>>, rest |-> rest]
             ELSE [err |-> ErrQuote, field |-> <<>>, more |-> FALSE,
                   line |-> <<>>, rest |-> rest]
        ELSE IF line # <<>> /\ rest # <<>>
        THEN QuotedField(ReadLine(rest).line, ReadLine(rest).rest, acc \o line)
        ELSE [err |-> ErrQuote, field |-> <<>>, more |-> FALSE, line |-> <<>>, rest |-> rest]

\* csv.Reader.readRecord: the fields of one record
RECURSIVE ParseFields(_, _, _)
ParseFields(line, rest, fields) ==
    IF line = <<>> \/ line[1] # "\""
    THEN LET i == FirstIndex(line, {","})
             field == IF i > 0 THEN SubSeq(line, 1, i - 1) ELSE WithoutNL(line)
         IN  IF \E j \in 1..Len(field) : field[j] = "\""
             THEN [err |-> ErrBareQuote, fields |-> <<>>, rest |-> rest]
             ELSE IF i > 0
             THEN ParseFields(SubSeq(line, i + 1, Len(line)), rest, Append(fields, field))
             ELSE [err |-> NoError, fields |-> Append(fields, field), rest |-> rest]
    ELSE LET q == QuotedField(Tail(line), rest, <<>>)
         IN  IF q.err # NoError
             THEN [err |-> q.err, fields |-> <<>>, rest |-> q.rest]
             ELSE IF q.more
             THEN ParseFields(q.line, q.rest, Append(fields, q.field))
             ELSE [err |-> NoError, fields |-> Append(fields, q.field), rest |-> q.rest]

\* csv.Reader.ReadAll: every record up to the end of the text; empty lines are
\* skipped, and every record has as many fields as the first
RECURSIVE ReadRecords(_, _)
ReadRecords(text, records) ==
    IF text = <<>> THEN [err |-> NoError, records |-> records]
    ELSE LET l == ReadLine(text)
             p == ParseFields(l.line, l.rest, <<>>)
         IN  IF l.line \in {<<>>, <<"\n">>} THEN ReadRecords(l.rest, records)
             ELSE IF p.err # NoError THEN [err |-> p.err, records |-> <<>>]
             ELSE IF records # <<>> /\ Len(p.fields) # Len(records[1])
             THEN [err |-> ErrFieldCount, records |-> <<>>]
             ELSE ReadRecords(p.rest, Append(records, p.fields))

ReadAll(text) == ReadRecords(text, <<>>)

CsvHeader ==
    <<<<"id">>, <<"name">>, <<"url">>, <<"provider">>, <<"selector">>, <<"currency">>,
      <<"target_price">>, <<"percent_drop">>, <<"schedule">>, <<"regex">>, <<"attr">>,
      <<"command">>>>

\* the row ExportItems writes for one item
ExportRecord(item) ==
    <<item.ID, item.Name, item.URL, item.Provider, item.Selector, item.Currency,
      IF item.TargetPrice # Nil THEN Sprintf2f(Deref(item.TargetPrice)) ELSE <<>>,
      IF item.PercentDrop # Nil THEN Sprintf2f(Deref(item.PercentDrop)) ELSE <<>>,
      item.Schedule, item.Regex, item.Attr, item.Command>>

\* ExportItems(items, filename): the header, then one row per item; createFault
\* is os.Create failing
ExportItems(items, createFault) ==
    IF createFault THEN [err |-> "failed to create file", file |-> <<>>]
    ELSE [err |-> NoError,
          file |-> WriteRecord(CsvHeader)
                       \o Concat([i \in 1..Len(items) |-> WriteRecord(ExportRecord(items[i]))])]

Column(record, k) == IF Len(record) >= k THEN record[k] ELSE <<>>

OptionalFloat(record, k) ==
    IF Len(record) >= k /\ record[k] # <<>> /\ ParseFloat(record[k]).err = NoError
    THEN Ptr(ParseFloat(record[k]).val)
    ELSE Nil

\* the item ImportItems builds from one row
ImportRecord(record) ==
    [ID |-> record[1], Name |-> record[2], URL |-> record[3], Provider |-> record[4],
     Selector |-> record[5], Currency |-> record[6],
     TargetPrice |-> OptionalFloat(record, 7), PercentDrop |-> OptionalFloat(record, 8),
     Schedule |-> Column(record, 9), Regex |-> Column(record, 10),
     Attr |-> Column(record, 11), Command |-> Column(record, 12)]

\* ImportItems, after ReadAll: at least a header and one row, every row with
\* six columns or more
ImportRows(read) ==
    IF read.err # NoError THEN [err |-> "failed to read CSV", items |-> <<>>]
    ELSE IF Len(read.records) < 2
    THEN [err |-> "CSV file must have at least a header and one data row", items |-> <<>>]
    ELSE IF \E i \in 2..Len(read.records) : Len(read.records[i]) < 6
    THEN [err |-> "row has insufficient columns", items |-> <<>>]
    ELSE [err |-> NoError,
          items |-> [i \in 1..(Len(read.records) - 1) |-> ImportRecord(read.records[i + 1])]]

\* ImportItems(filename) on a file with this text
ImportItems(text) == ImportRows(ReadAll(text))

CsvItem(id, name, selector, target, drop, command) ==
    [ID |-> <<id>>, Name |-> name, URL |-> <<"shop/steady">>, Provider |-> <<"generic">>,
     Selector |-> selector, Currency |-> <<"USD">>, TargetPrice |-> target,
     PercentDrop |-> drop, Schedule |-> <<"hourly">>, Regex |-> <<>>, Attr |-> <<>>,
     Command |-> command]

\* the items of the watchlists exported: plain fields, a field with a space, a
\* comma, a quote, a leading space, a line feed, a CR LF; thresholds absent,
\* whole and with more than two decimals
CsvItems ==
    {CsvItem("a", <<"SSD", " ", "1">>, <<".price">>, Nil, Nil, <<>>),
     CsvItem("b", <<"Pro", ",", "2TB">>, <<".price", " ", ".value">>,
             Ptr(93456), Ptr(8000), <<>>),
     CsvItem("c", <<"27", "\"">>, <<>>, Ptr(4250000), Nil, <<"scrape", " ", "{url}">>),
     CsvItem("d", <<" ", "deal">>, <<".price">>, Nil, Ptr(2504), <<>>),
     CsvItem("e", <<"two", "\n", "lines">>, <<".price">>, Ptr(0 - 1001), Nil, <<>>),
     CsvItem("f", <<"two", "\r", "\n", "lines">>, <<".price">>, Nil, Nil, <<>>)}

Watchlists == UNION {[1..n -> CsvItems] : n \in 0..MaxCsvItems}

InitCsv ==
    /\ cfgItems = <<>>
    /\ rulesDrop = LoadRulesPercentDrop(0)
    /\ dbItems = {}
    /\ prices = <<>>
    /\ op = "start"
    /\ ret = NoError
    /\ tracked = <<>>
    /\ evaluated = <<>>
    /\ alerts = {}
    /\ handed = <<>>
    /\ StoreIdle /\ NotifyIdle /\ RaceIdle /\ LoopIdle
    /\ FetchIdle /\ BackoffIdle /\ WatchIdle
    /\ csvPc = "start"
    /\ csvItems \in Watchlists
    /\ csvFile = <<>>
    /\ csvImported = <<>>
    /\ csvErr = NoError

\* `pricetrek export --csv`: ExportItems writes the file
CsvExport ==
    /\ csvPc = "start"
    /\ \E createFault \in BOOLEAN :
        LET r == ExportItems(csvItems, createFault)
        IN  /\ csvPc' = IF r.err = NoError THEN "exported" ELSE "failed"
            /\ csvFile' = r.file
            /\ csvErr' = r.err
    /\ UNCHANGED <<pipeVars, lastCall, notifyVars, raceVars, loopVars, fetchVars,
                   backoffVars, watchVars, csvItems, csvImported>>

\* `pricetrek import --csv`: ImportItems reads the file
CsvImport ==
    /\ csvPc = "exported"
    /\ \E r \in {ImportItems(csvFile)} :
        /\ csvImported' = r.items
        /\ csvErr' = r.err
    /\ csvPc' = "imported"
    /\ UNCHANGED <<pipeVars, lastCall, notifyVars, raceVars, loopVars, fetchVars,
                   backoffVars, watchVars, csvItems, csvFile>>

NextCsv == CsvExport \/ CsvImport

SpecCsv == InitCsv /\ [][NextCsv]_vars

---------------------------------------------------------------------------
(* SpecNotify: a NotificationManager built from a configuration, and its Send *)

Messages == {"Price drop alert: a", "Target price reached: a"}
Outcomes == {NoError, "delivery failed"}

InitNotify ==
    /\ enabled \in [ChannelSet -> BOOLEAN]
    /\ notifiers = New(enabled)
    /\ attempts = <<>>
    /\ cfgItems = <<>>
    /\ rulesDrop = LoadRulesPercentDrop(0)
    /\ dbItems = {}
    /\ prices = <<>>
    /\ op = "start"
    /\ ret = NoError
    /\ tracked = <<>>
    /\ evaluated = <<>>
    /\ alerts = {}
    /\ handed = <<>>
    /\ StoreIdle /\ RaceIdle /\ LoopIdle /\ SideIdle

\* NotificationManager.Send with some message; every notifier answers as it likes
NotifySend ==
    /\ \E message \in Messages, outcomes \in [1..Len(notifiers) -> Outcomes] :
          LET r == Send(notifiers, message, outcomes)
          IN  /\ attempts' = r.attempts
              /\ ret' = r.err
    /\ op' = "send"
    /\ UNCHANGED <<cfgItems, rulesDrop, dbItems, prices, tracked, evaluated,
                   alerts, handed, lastCall, enabled, notifiers, raceVars, loopVars, sideVars>>

NextNotify == NotifySend

SpecNotify == InitNotify /\ [][NextNotify]_vars

---------------------------------------------------------------------------
(* The claims *)

\* the calls of the last tracking run that ended in an error
FailedCalls == {i \in 1..Len(tracked) : tracked[i].err # NoError}

\* C1: TrackAll isolates failures per item. A run over all configured items
\* calls TrackItem for every item of the list, in order, whichever of them
\* fail; it appends exactly one row per item whose fetch and INSERT both
\* succeeded, holding that item's id and the fetched price, currency and
\* metadata, in the order of the list; it leaves the earlier rows alone; and it
\* returns no error.
C1_TrackAllIsolatesFailures ==
    [][op' = "trackAll" =>
        LET n == Len(cfgItems)
            good == {i \in 1..Len(tracked') : tracked'[i].fetched /\ tracked'[i].saved}
            rank(i) == Cardinality({j \in good : j <= i})
        IN  /\ ret' = NoError
            /\ Len(tracked') = n
            /\ \A i \in 1..n : tracked'[i].item = cfgItems[i].ID
            /\ Len(prices') = Len(prices) + Cardinality(good)
            /\ SubSeq(prices', 1, Len(prices)) = prices
            /\ \A i \in good :
                  LET row == prices'[Len(prices) + rank(i)]
                  IN  /\ row.item_id = cfgItems[i].ID
                      /\ row.price = tracked'[i].sample.Price
                      /\ row.currency = tracked'[i].sample.Currency
                      /\ UnmarshalMeta(row.meta) = tracked'[i].sample.Meta
    ]_vars

\* C1, its case: a run in which an item failed and a later item of the list
\* was tracked and saved all the same
C1_FailureThenSuccess ==
    /\ op = "trackAll"
    /\ \E i, j \in 1..Len(tracked) :
          /\ i < j
          /\ tracked[i].err # NoError
          /\ tracked[j].saved
          /\ tracked[i].item # tracked[j].item
          /\ \E k \in 1..Len(prices) : prices[k].item_id = tracked[j].item

\* C2: the final status of a run over all items reports the failures: a run
\* in which at least one TrackItem call returned an error ends with a non-zero
\* process exit.
C2_FailedRunExitsNonZero ==
    (op = "trackAll" /\ FailedCalls # {}) => ExitStatus(ret) # 0

\* C3: a TrackItem call that fetched a price and wrote its sample goes on to
\* run the rule evaluation for that item before it returns.  (Stated for a
\* fetched price above 0.)
C3_TrackItemEvaluatesWrittenSample ==
    op \in {"trackAll", "trackItem"} =>
        \A i \in 1..Len(tracked) :
            (tracked[i].saved /\ tracked[i].sample.Price > 0) =>
                \E k \in 1..Len(evaluated) : evaluated[k].item = tracked[i].item

\* the rows of an item in the order they were written: the last one is its
\* current sample, the one before it its previous sample
RowsOf(id) == SelectSeq(prices, LAMBDA r : r.item_id = id)
Current(id) == RowsOf(id)[Len(RowsOf(id))]
Previous(id) == RowsOf(id)[Len(RowsOf(id)) - 1]

\* the evaluations of the last CheckAlerts run whose queries all succeeded
Evaluations ==
    IF op = "checkAlerts"
    THEN {i \in 1..Len(evaluated) : evaluated[i].err = NoError}
    ELSE {}

Fired(id, kind) == \E a \in alerts : a.item = id /\ a.kind = kind

\* the threshold in force for an item
Threshold(item) ==
    IF item.PercentDrop # Nil THEN Deref(item.PercentDrop) ELSE rulesDrop

\* (previous - current) / previous * 100 >= threshold, as float64 decides it:
\* by the sign of previous; for previous = 0 the quotient is +Inf, -Inf or NaN
DropAtLeast(previous, current, threshold) ==
    \/ previous > 0 /\ (previous - current) * 100 >= threshold * previous
    \/ previous < 0 /\ (previous - current) * 100 <= threshold * previous
    \/ previous = 0 /\ current < 0

\* every stored sample of the item has a price above 0
AllPositive(id) == \A k \in 1..Len(RowsOf(id)) : RowsOf(id)[k].price > 0

\* C4: every alert condition the evaluator found true is handed, as a
\* message, to the notification fan-out.  (Stated for items whose samples all
\* have a price above 0.)
C4_FiredAlertsReachFanout ==
    \A a \in alerts :
        AllPositive(a.item) => \E k \in 1..Len(handed) : handed[k].alert = a

\* the in_stock flag a stored row carries, if it carries one
CarriesStock(row) == \E b \in BOOLEAN : <<"in_stock", MarshalValue(GoBool(b))>> \in row.meta.obj
InStock(row) == <<"in_stock", MarshalValue(GoBool(TRUE))>> \in row.meta.obj

\* C5: for an item that defines target_price the evaluator emits
\* target_reached exactly when the price of the item's latest sample is at or
\* below target_price, and it never emits it for an item without target_price.
\* (Stated for items whose samples all have a price above 0.)
C5_TargetReachedExactlyAtOrBelowTarget ==
    \A i \in Evaluations :
        LET item == cfgItems[i]
        IN  AllPositive(item.ID) =>
               (Fired(item.ID, "target_reached") <=>
                   /\ item.TargetPrice # Nil
                   /\ RowsOf(item.ID) # <<>>
                   /\ Current(item.ID).price <= Deref(item.TargetPrice))

\* C6: for an item whose history holds exactly one sample, priced at or below
\* target_price, the evaluator emits target_reached and neither percent_drop
\* nor restock.  (Stated for a sample with a price above 0.)
C6_TargetReachedFromSingleSample ==
    \A i \in Evaluations :
        LET item == cfgItems[i]
        IN  (/\ Len(RowsOf(item.ID)) = 1
             /\ AllPositive(item.ID)
             /\ item.TargetPrice # Nil
             /\ Current(item.ID).price <= Deref(item.TargetPrice))
            => /\ Fired(item.ID, "target_reached")
               /\ ~Fired(item.ID, "percent_drop")
               /\ ~Fired(item.ID, "restock")

C8_NoDropAcrossCurrencies ==
    \A i \in Evaluations :
        LET item == cfgItems[i]
        IN  (/\ Len(RowsOf(item.ID)) >= 2
             /\ AllPositive(item.ID)
             /\ Previous(item.ID).currency # Current(item.ID).currency)
            => ~Fired(item.ID, "percent_drop")

\* C9: when the previous sample's price is 0 the evaluator emits no
\* percent_drop alert, whatever the current price and the threshold.
C9_NoDropFromZeroPrevious ==
    \A i \in Evaluations :
        LET item == cfgItems[i]
        IN  (/\ Len(RowsOf(item.ID)) >= 2
             /\ Previous(item.ID).price = 0)
            => ~Fired(item.ID, "percent_drop")

\* C10: when the previous and the current sample carry stock state, the
\* evaluator emits restock exactly when the previous in_stock flag is false
\* and the current one is true.  (Stated for samples with a price above 0.)
C10_RestockOnFlipToInStock ==
    \A i \in Evaluations :
        LET item == cfgItems[i]
        IN  (/\ Len(RowsOf(item.ID)) >= 2
             /\ AllPositive(item.ID)
             /\ CarriesStock(Previous(item.ID))
             /\ CarriesStock(Current(item.ID)))
            => (Fired(item.ID, "restock") <=>
                   ~InStock(Previous(item.ID)) /\ InStock(Current(item.ID)))

\* the target condition and the percent-drop condition of an item, read off
\* the stored rows
TargetCondition(item) ==
    /\ item.TargetPrice # Nil
    /\ Current(item.ID).price <= Deref(item.TargetPrice)

DropCondition(item) ==
    /\ Threshold(item) > 0
    /\ DropAtLeast(Previous(item.ID).price, Current(item.ID).price, Threshold(item))

\* C11: the two alert conditions are evaluated independently and are not
\* exclusive. In an evaluation that reaches the checks (the item has at least
\* two samples) target_reached is emitted exactly when the target condition
\* holds and percent_drop exactly when the drop condition holds, each
\* whatever the outcome of the other; so a sample that satisfies both gets
\* both alerts from that one evaluation.
C11_AlertsAreIndependent ==
    \A i \in Evaluations :
        LET item == cfgItems[i]
        IN  Len(RowsOf(item.ID)) >= 2 =>
               /\ Fired(item.ID, "target_reached") <=> TargetCondition(item)
               /\ Fired(item.ID, "percent_drop") <=> DropCondition(item)
               /\ (TargetCondition(item) /\ DropCondition(item)) =>
                     Cardinality({a \in alerts : a.item = item.ID}) = 2

\* C11, its case: one evaluation of a sample that is at or below the target
\* and has dropped by at least the threshold (100 then 91, target 93) has
\* emitted both alerts
C11_BothAlertsFromOneSample ==
    \E i \in Evaluations :
        LET item == cfgItems[i]
        IN  /\ Len(RowsOf(item.ID)) >= 2
            /\ AllPositive(item.ID)
            /\ item.TargetPrice = Ptr(93)
            /\ Previous(item.ID).price = 100
            /\ Current(item.ID).price = 91
            /\ Fired(item.ID, "target_reached")
            /\ Fired(item.ID, "percent_drop")

\* the place of a channel in the order of New
ChannelRank(c) == CHOOSE i \in 1..Len(Channels) : Channels[i] = c

\* C12: NotificationManager.Send attempts delivery exactly once on every
\* enabled channel and on no disabled channel, in the fixed order email,
\* telegram, slack, ntfy, all with the message it was given; a failed attempt
\* never stops the attempts on the channels after it.
C12_SendAttemptsEveryEnabledChannelOnce ==
    op = "send" =>
        /\ \A c \in ChannelSet :
              Cardinality({i \in 1..Len(attempts) : attempts[i].channel = c})
                 = IF enabled[c] THEN 1 ELSE 0
        /\ \A i, j \in 1..Len(attempts) :
              i < j => ChannelRank(attempts[i].channel) < ChannelRank(attempts[j].channel)
        /\ \A i, j \in 1..Len(attempts) : attempts[i].message = attempts[j].message

\* C12, its case: with a channel disabled, the first attempt failed and a
\* later channel was attempted all the same
C12_FailureThenLaterAttempt ==
    /\ op = "send"
    /\ \E c \in ChannelSet : ~enabled[c]
    /\ Len(attempts) >= 2
    /\ attempts[1].err # NoError
    /\ attempts[2].err = NoError

\* C13: NotificationManager.Send returns no error for every combination of
\* failing and succeeding channels, all channels failing and no channel
\* enabled included.
C13_SendNeverReturnsAnError ==
    op = "send" => ret = NoError

\* C13, its case: all four channels enabled, every attempt failed, and Send
\* has returned
C13_AllChannelsFailed ==
    /\ op = "send"
    /\ Len(attempts) = 4
    /\ \A i \in 1..Len(attempts) : attempts[i].err # NoError
    /\ ret = NoError

\* C14: whenever the evaluator compares two samples, the one it takes as
\* previous is the sample written immediately before the one it takes as
\* current, whatever writes for the item land between its two queries: it is
\* an older sample of the item, and no sample of the item lies between the two.
C14_PreviousImmediatelyPrecedesCurrent ==
    compared # Nil =>
        LET c == Deref(compared)
        IN  /\ c.previous.Time < c.current.Time
            /\ ~ \E k \in 1..Len(prices) :
                   /\ prices[k].item_id = c.current.ItemID
                   /\ c.previous.Time < prices[k].ts
                   /\ prices[k].ts < c.current.Time

\* the rows of a table that do not belong to an item, in their order
Without(table, id) == SelectSeq(table, LAMBDA r : r.item_id # id)

\* C15: samples are append-only. Every step other than DeleteItem (SavePrice,
\* SaveItem, GetPrices, GetLatestPrice, the tracking of an item, CheckAlerts)
\* leaves every stored row in place, unchanged, and at most appends rows;
\* DeleteItem(id) leaves every row of every other item in place, unchanged,
\* adds none, and when it returns no error no row of id is left.
C15_SamplesAreAppendOnly ==
    [][IF op' = "DeleteItem"
       THEN /\ Without(prices', lastCall'.id) = Without(prices, lastCall'.id)
            /\ Len(prices') <= Len(prices)
            /\ ret' = NoError => prices' = Without(prices, lastCall'.id)
       ELSE /\ Len(prices') >= Len(prices)
            /\ SubSeq(prices', 1, Len(prices)) = prices
    ]_vars

\* C15, its case: DeleteItem has removed the samples of its item, the oldest
\* sample among them, and the samples of the other item are still stored
C15_DeletedBesideSurvivors ==
    /\ op = "DeleteItem"
    /\ ret = NoError
    /\ prices # <<>>
    /\ \A k \in 1..Len(prices) : prices[k].item_id # lastCall.id /\ prices[k].ts > 1

\* the samples a SavePrice call that returned no error is read back as
ReadBack == GetPrices(prices, lastCall.id, 1)

SavedAndReadBackEqual ==
    /\ Len(ReadBack) = 1
    /\ ReadBack[1].ItemID = lastCall.id
    /\ ReadBack[1].Price = lastCall.price
    /\ ReadBack[1].Currency = lastCall.currency
    /\ ReadBack[1].Meta = lastCall.meta

\* the metadata maps whose values all have a type encoding/json decodes to
JSONNative(meta) == \A p \in meta.kv : p[2].type \in {"bool", "float64"}

\* C16 as claimed: for every item id, price, currency and metadata map, a
\* sample written with SavePrice and read back with GetPrices(id, 1) right
\* after has the same item id, price, currency and metadata.
C16_RoundTripForEveryMeta ==
    (op = "SavePrice" /\ ret = NoError) => SavedAndReadBackEqual

\* C16, amended: the same, for every metadata map that is nil or whose values
\* have the types encoding/json decodes to (bool, float64); a value of
\* another numeric type, such as an int, is read back as a float64.
C16_RoundTripForJSONNativeMeta ==
    (op = "SavePrice" /\ ret = NoError) =>
        /\ JSONNative(lastCall.meta) => SavedAndReadBackEqual
        /\ \A p \in lastCall.meta.kv :
              <<p[1], GoFloat64(p[2].val)>> \in ReadBack[1].Meta.kv
                 \/ <<p[1], p[2]>> \in ReadBack[1].Meta.kv

\* C16, its case: a sample with a bool and a float64 in its metadata was
\* written on top of an older sample of the same item and reads back equal
C16_RatedSampleReadBack ==
    /\ op = "SavePrice"
    /\ ret = NoError
    /\ lastCall.meta = RatedMeta
    /\ Len(RowsOf(lastCall.id)) >= 2
    /\ SavedAndReadBackEqual

ConfiguredCurrencies(id) ==
    {cfgItems[i].Currency : i \in {j \in 1..Len(cfgItems) : cfgItems[j].ID = id}}
    \cup {it.Currency : it \in {x \in dbItems : x.ID = id}}

\* C18: in every reachable state of the store, every sample written by the
\* tracking pipeline has a price greater than 0 and the currency code
\* configured for its item.
C18_StoredSamplesPositiveInItemCurrency ==
    \A k \in 1..Len(prices) :
        /\ prices[k].price > 0
        /\ \A c \in ConfiguredCurrencies(prices[k].item_id) : prices[k].currency = c

\* C19: in loop mode a failed tracking run never ends the loop. When a run
\* comes back, with an error or without, the run is on the log with the error
\* it returned and trackLoop is at its select again, waiting for the next
\* tick; trackLoop returns only from the select, only when its context is
\* cancelled, and it returns the context's error then.
C19_FailedRunNeverEndsLoop ==
    [][/\ (loopPc \in {"run", "runCancelled"} /\ loopPc' # loopPc) =>
             /\ loopPc' = "select"
             /\ Len(loopLog') = Len(loopLog) + 1
             /\ loopLog'[Len(loopLog')].err = ret'
       /\ (loopPc # "returned" /\ loopPc' = "returned") =>
             /\ loopPc = "select"
             /\ ctxDone
             /\ ret' = "context canceled"
    ]_vars

\* C19, its case: a run failed, a later run was made all the same, and the
\* loop, never cancelled, is waiting at its select
C19_RunAfterFailedRun ==
    /\ loopPc = "select"
    /\ ~ctxDone
    /\ Len(loopLog) >= 2
    /\ loopLog[1].err # NoError
    /\ loopLog[2].err = NoError

\* C20: once the loop's context is cancelled, trackLoop starts no further
\* tracking run, also when a tick is pending at that moment.
C20_NoRunStartsAfterCancel ==
    [][ctxDone => ~(loopPc = "select" /\ loopPc' \in {"run", "runCancelled"})]_vars

\* C29: in loop mode tracking runs are strictly sequential.  At most one
\* trackOnce call is in progress, and it is exactly while trackLoop is
\* inside its tick case; every run that started before it has returned; and
\* however many ticks elapse during a run, at most one waits for the select.
C29_RunsAreSequentialWithoutBacklog ==
    /\ running \in {0, 1}
    /\ running = 1 <=> loopPc \in {"run", "runCancelled"}
    /\ tickPending <= 1
    /\ loopPc \in {"run", "runCancelled"} => tickPending <= elapsed

\* two ticks elapsed during the first run, which has returned: one tick waits
C29_TwoTicksDuringRun ==
    /\ loopPc = "select"
    /\ Len(loopLog) = 1
    /\ elapsed = 2
    /\ tickPending = 1

---------------------------------------------------------------------------
(* The resilience layer: forced refresh, cache, retries *)

\* a fetch has been made through the resilience layer
Fetched == lastFetch.id # ""

\* C21: a forced refresh is honoured.  A fetch of `track --no-cache` that
\* finds a live cache entry calls the provider all the same; a fetch without
\* the flag that finds a live entry returns the entry's content and calls
\* the provider not once.
C21_NoCacheBypassesLiveEntry ==
    Fetched /\ lastFetch.live =>
        IF lastFetch.noCache
        THEN lastFetch.tries >= 1
        ELSE /\ lastFetch.tries = 0
             /\ lastFetch.err = NoError
             /\ lastFetch.sample = Deref(lastFetch.stored).raw

Delay == Backoff(tryNo, baseDelay, maxDelay, Deref(jitter))

\* C24: the delay before try n (n >= 2) is within [0, maxDelay + baseDelay];
\* its exponential part is min(maxDelay, baseDelay * 2^(n-2)), which never
\* exceeds maxDelay and is not smaller than that of the try before; the
\* jitter added is within [0, baseDelay].
C24_BackoffDelayWithinBounds ==
    tryNo >= 2 /\ jitter # Nil =>
        /\ 0 <= Delay /\ Delay <= maxDelay + baseDelay
        /\ Delay = delayParts[1] + Deref(jitter)
        /\ \/ delayParts[1] = baseDelay * 2^(tryNo - 2) /\ delayParts[1] <= maxDelay
           \/ delayParts[1] = maxDelay /\ maxDelay <= baseDelay * 2^(tryNo - 2)
        /\ Len(delayParts) = 2 => delayParts[2] <= delayParts[1]
        /\ 0 <= Deref(jitter) /\ Deref(jitter) <= baseDelay

\* with a base delay of 3 s and the default maximum of 7 s, the delay before
\* the fourth try is clamped after one that was not, and carries the largest
\* jitter
C24_ClampedAfterGrowing ==
    /\ baseDelay = 3000 /\ maxDelay = 7000
    /\ tryNo = 4
    /\ delayParts = <<7000, 6000>>
    /\ jitter = Ptr(3000)
    /\ Delay = 10000

---------------------------------------------------------------------------
(* Tracking: what a failed TrackItem leaves behind *)

FailedBeforeSaving(c) == c.err \in {"failed to get provider", "failed to fetch price"}

\* C26: a failed TrackItem leaves the sample store unchanged.  In every
\* tracking run, a TrackItem call whose provider lookup or fetch failed
\* returned an error and saved nothing: the table after the run is the table
\* before it followed by one row for each call that saved, in the order of
\* the calls, so a run whose calls all failed leaves the table as it was;
\* and `track --id` returns the error of its call.
C26_FailedTrackItemLeavesStoreUnchanged ==
    [][op' \in {"trackAll", "trackItem"} =>
          LET savedCalls == SelectSeq(tracked', LAMBDA c : c.saved)
              appended == SubSeq(prices', Len(prices) + 1, Len(prices'))
          IN  /\ \A i \in DOMAIN tracked' :
                    FailedBeforeSaving(tracked'[i]) =>
                        ~tracked'[i].saved /\ ~tracked'[i].fetched
              /\ Len(prices') >= Len(prices)
              /\ SubSeq(prices', 1, Len(prices)) = prices
              /\ Len(appended) = Len(savedCalls)
              /\ \A k \in DOMAIN appended : appended[k].item_id = savedCalls[k].item
              /\ (op' = "trackItem" /\ tracked' # <<>> /\ FailedBeforeSaving(tracked'[1])) =>
                    ret' = tracked'[1].err /\ prices' = prices
    ]_vars

\* a run over a table that holds samples made a call whose provider lookup
\* failed and one whose fetch failed
C26_FailedCallsBesideStoredSamples ==
    /\ prices # <<>>
    /\ \E i \in DOMAIN tracked : tracked[i].err = "failed to get provider"
    /\ \E i \in DOMAIN tracked : tracked[i].err = "failed to fetch price"

---------------------------------------------------------------------------
(* Removing an item *)

\* C28: DeleteItem is all-or-nothing.  Whatever DeleteItem(id) returns, it
\* leaves either the item row and all samples of id in place, or neither;
\* the items and the samples of other ids are as they were.
C28_DeleteItemIsAllOrNothing ==
    [][op' = "DeleteItem" =>
          LET id == lastCall'.id
          IN  \/ dbItems' = dbItems /\ prices' = prices
              \/ /\ dbItems' = {it \in dbItems : it.ID # id}
                 /\ prices' = SelectSeq(prices, LAMBDA r : r.item_id # id)
    ]_vars

---------------------------------------------------------------------------
(* The watchlist *)

StoredIDs == {it.ID : it \in dbItems}

\* C25: every stored item is tracked by a run over all items, and no other.
\* After a `track --once` run over all items, every item in storage has had
\* its TrackItem call, and every TrackItem call was for an item in storage.
C25_TrackAllTracksTheStoredItems ==
    op = "trackAll" =>
        /\ \A id \in StoredIDs : \E i \in DOMAIN tracked : tracked[i].item = id
        /\ \A i \in DOMAIN tracked : tracked[i].item \in StoredIDs

\* C27: ids are unique under `add`.  The id generated by an add that
\* succeeded was not the id of an item already stored, and the store holds
\* one item per add that succeeded.
C27_AddNeverReplacesAnItem ==
    /\ lastAdd.err = NoError => ~lastAdd.existed
    /\ Cardinality(dbItems) = added

\* two items that agree on every column of the watchlist file, the thresholds
\* compared by presence only
SameWatchlistFields(a, b) ==
    /\ a.ID = b.ID /\ a.Name = b.Name /\ a.URL = b.URL /\ a.Provider = b.Provider
    /\ a.Selector = b.Selector /\ a.Currency = b.Currency /\ a.Schedule = b.Schedule
    /\ a.Regex = b.Regex /\ a.Attr = b.Attr /\ a.Command = b.Command
    /\ (a.TargetPrice = Nil) <=> (b.TargetPrice = Nil)
    /\ (a.PercentDrop = Nil) <=> (b.PercentDrop = Nil)

\* C30: for every list of items, the empty list included, ImportItems applied
\* to the file ExportItems wrote succeeds and returns the same items in the
\* same order: the same id, name, url, provider, selector, currency, schedule,
\* regex, attr and command, and target_price and percent_drop present exactly
\* when the exported item had them.
C30_ImportReturnsTheExportedItems ==
    csvPc = "imported" =>
        /\ csvErr = NoError
        /\ Len(csvImported) = Len(csvItems)
        /\ \A i \in 1..Len(csvItems) : SameWatchlistFields(csvImported[i], csvItems[i])


=============================================================================
